---- MODULE Spec2Model ----
(***************************************************************************)
(* PCP 360 dashboard (jgm-smart-planning, frontend): the panels' view      *)
(* state and the requests they have in flight.                             *)
(*                                                                         *)
(* A JavaScript string is a sequence of one-character strings; null and    *)
(* objects are records; the text of a status message is a TLA+ string.     *)
(* A handler runs to completion up to its next await: each action below is *)
(* one such run, so a state is what the component holds between two        *)
(* JavaScript tasks.                                                       *)
(***************************************************************************)
EXTENDS Integers, Sequences, FiniteSets, TLC

(***************************************************************************)
(* Bounds of the model.                                                    *)
(***************************************************************************)
\* longest identifier generated from SampleChars for the pure functions
MaxLen == 3
\* requests the planning-board panel issues in one behaviour
MaxRequests == 2
\* requests each pegging panel issues in one behaviour
MaxPegRequests == 2
\* the longest insights list given to the capacity render
MaxResources == 3

\* the weeks of a planning board's series
MaxWeeks == 2

\* the requests of unmounted panels that are followed until they resolve
MaxOrphans == 1

(***************************************************************************)
(* Characters and strings.                                                 *)
(***************************************************************************)
Digits == {"0", "1", "2", "3", "4", "5", "6", "7", "8", "9"}

Upper == {"A", "B", "C", "D", "E", "F", "G", "H", "I", "J", "K", "L", "M",
          "N", "O", "P", "Q", "R", "S", "T", "U", "V", "W", "X", "Y", "Z"}

Lower == {"a", "b", "c", "d", "e", "f", "g", "h", "i", "j", "k", "l", "m",
          "n", "o", "p", "q", "r", "s", "t", "u", "v", "w", "x", "y", "z"}

\* the characters String.prototype.trim removes that the inputs below use
WhiteSpace == {" ", "\t"}

\* null (also standing for undefined: the code tests both with || and ?.)
NULL == [null |-> TRUE]

\* a value that is a string or null, as the argument of a function that
\* accepts both
Str(s) == [type |-> "string", chars |-> s]

NullArg == [type |-> "null", chars |-> <<>>]

\* code || "" : null, undefined and "" all give ""
OrEmpty(code) == IF code.type = "null" THEN <<>> ELSE code.chars

RECURSIVE TrimStart(_)
TrimStart(s) ==
    IF s # <<>> /\ Head(s) \in WhiteSpace THEN TrimStart(Tail(s)) ELSE s

RECURSIVE TrimEnd(_)
TrimEnd(s) ==
    IF s # <<>> /\ s[Len(s)] \in WhiteSpace
    THEN TrimEnd(SubSeq(s, 1, Len(s) - 1))
    ELSE s

\* String.prototype.trim
Trim(s) == TrimEnd(TrimStart(s))

(***************************************************************************)
(* PeggingIaLite: the validator and the demo data.                         *)
(***************************************************************************)
DEFAULT_MATERIAL == <<"4", "0", "1", "1", "8", "3", "5", "-", "A", "A">>

\* the character class [0-9A-Za-z-]
MaterialClass == Digits \cup Upper \cup Lower \cup {"-"}

\* one or more characters of the class, from position i to the end: the
\* match of [0-9A-Za-z-]+$ started at i
RECURSIVE MatchClassPlus(_, _)
MatchClassPlus(s, i) ==
    /\ i <= Len(s)
    /\ s[i] \in MaterialClass
    /\ (i = Len(s) \/ MatchClassPlus(s, i + 1))

\* mutant: the pattern without its anchors, /[0-9A-Za-z-]+/
RegexTest_Unanchored(s) == \E i \in 1..Len(s) : s[i] \in MaterialClass

\* /^[0-9A-Za-z-]+$/.test(s)
RegexTest(s) == MatchClassPlus(s, 1)

isValidMaterial(code) ==
    LET trimmed == Trim(OrEmpty(code))
    IN  IF trimmed = <<>> THEN FALSE ELSE RegexTest(trimmed)

\* the object literal the constant DEMO_PEGGING_4011835 is initialised with
\* (the decimal fields keep their text; message and description texts are
\* written in ASCII throughout)
DEMO_PEGGING_4011835 ==
    [ material |-> DEFAULT_MATERIAL,
      descricao |-> "Conjunto Airbag - Volante",
      cobertura_atual_dias |-> "5.2",
      total_ordens_vinculadas |-> 5,
      ordens_atrasadas |-> 2,
      maior_atraso_dias |-> 3,
      ordens |-> <<
        [ ordem |-> "00000045", material |-> DEFAULT_MATERIAL,
          data_fim |-> "2025-12-10", atraso_dias |-> 3, backlog_qtd |-> 450,
          criticidade_score |-> "91.3" ],
        [ ordem |-> "00000048", material |-> DEFAULT_MATERIAL,
          data_fim |-> "2025-12-12", atraso_dias |-> 1, backlog_qtd |-> 220,
          criticidade_score |-> "84.7" ],
        [ ordem |-> "00000052", material |-> DEFAULT_MATERIAL,
          data_fim |-> "2025-12-18", atraso_dias |-> 0, backlog_qtd |-> 0,
          criticidade_score |-> "72.1" ],
        [ ordem |-> "00000057", material |-> DEFAULT_MATERIAL,
          data_fim |-> "2025-12-22", atraso_dias |-> 0, backlog_qtd |-> 0,
          criticidade_score |-> "65.3" ],
        [ ordem |-> "00000060", material |-> DEFAULT_MATERIAL,
          data_fim |-> "2025-12-29", atraso_dias |-> 0, backlog_qtd |-> 0,
          criticidade_score |-> "58.9" ] >> ]

(***************************************************************************)
(* State.                                                                  *)
(***************************************************************************)
VARIABLES
    \* the handler that ran last (history)
    lastOp,
    \* the object the constant DEMO_PEGGING_4011835 refers to
    seedObj,
    \* which of the two sources of frontend/src/PeggingIaLite.js is built:
    \* "demo" (with demo data) or "lite" (without)
    variant,
    \* PlanningBoardIa: useState values, whether the mount effect has run,
    \* and the loadBoard calls suspended at an await or finished
    materialCode, board, loadingBoard, pb_error, pb_mounted, pb_reqs,
    \* CapacityIa: useState values and the position of fetchCapacity
    cap_data, cap_loading, cap_error, cap_pc,
    \* PeggingIaLite with demo data: useState values and its
    \* handleLoadPegging calls
    materialInput, loading, error, result, peg_reqs,
    \* PeggingIaLite without demo data: the same
    lite_materialInput, lite_loading, lite_error, lite_result, lite_reqs,
    \* the pure functions applied to an argument
    fn_arg, fn_calls, fn_valid, fn_demo,
    \* App: useState values and the position of fetchData
    app_data, app_loading, app_error, activeTab, app_pc,
    \* IaInsightsPanel: useState values and the position of fetchInsights
    ins_insights, ins_loading, ins_error, ins_pc,
    \* "PeggingIaLite - OLD.js": the materialCode prop, whether the effect on
    \* it is still to run, useState values and the fetchPegging calls
    old_materialCode, old_effect, old_material, old_effectiveMaterial,
    old_data, old_loading, old_error, old_reqs,
    \* a computation of a render applied to a payload: which one, the
    \* payload it reads, the payload as received (history), whether it has
    \* run, what it returned
    rf_fn, rf_arg, rf_given, rf_done, rf_out,
    \* IaInsightsPanel under a parent that passes filterTipo: the prop,
    \* whether the effect on it is still to run, useState values and the
    \* fetchInsights calls
    flt_filterTipo, flt_effect, flt_insights, flt_loading, flt_error, flt_reqs,
    \* a request whose component was unmounted before it settled: the panel
    \* it belonged to, "none", or "off" when such requests are not followed
    orphan

pbVars == <<materialCode, board, loadingBoard, pb_error, pb_mounted, pb_reqs>>

capVars == <<cap_data, cap_loading, cap_error, cap_pc>>

pegVars == <<materialInput, loading, error, result, peg_reqs>>

liteVars == <<lite_materialInput, lite_loading, lite_error, lite_result, lite_reqs>>

fnVars == <<fn_arg, fn_calls, fn_valid, fn_demo>>

appVars == <<app_data, app_loading, app_error, activeTab, app_pc>>

insVars == <<ins_insights, ins_loading, ins_error, ins_pc>>

fltVars == <<flt_filterTipo, flt_effect, flt_insights, flt_loading, flt_error,
             flt_reqs>>

rfVars == <<rf_fn, rf_arg, rf_given, rf_done, rf_out>>

oldVars == <<old_materialCode, old_effect, old_material, old_effectiveMaterial,
             old_data, old_loading, old_error, old_reqs>>

vars == <<lastOp, seedObj, variant, pbVars, capVars, pegVars, liteVars, fnVars,
          appVars, insVars, oldVars, rfVars, fltVars, orphan>>

\* what a handler of one component leaves alone: the other components
PbFrame ==
    UNCHANGED <<seedObj, variant, capVars, pegVars, liteVars, fnVars, appVars, insVars,
                oldVars, rfVars, fltVars, orphan>>

\* mutant: one loading flag shared by the capacity panel and the planning
\* board, cleared by whichever handler runs
CapFrame_SharedLoading ==
    /\ loadingBoard' = FALSE
    /\ UNCHANGED <<seedObj, variant, materialCode, board, pb_error, pb_mounted,
                   pb_reqs, pegVars, liteVars, fnVars, appVars, insVars,
                   oldVars, rfVars, fltVars, orphan>>

CapFrame ==
    UNCHANGED <<seedObj, variant, pbVars, pegVars, liteVars, fnVars, appVars, insVars,
                oldVars, rfVars, fltVars, orphan>>

PegFrame ==
    UNCHANGED <<seedObj, variant, pbVars, capVars, liteVars, fnVars, appVars, insVars,
                oldVars, rfVars, fltVars, orphan>>

LiteFrame ==
    UNCHANGED <<seedObj, variant, pbVars, capVars, pegVars, fnVars, appVars, insVars,
                oldVars, rfVars, fltVars, orphan>>

AppFrame ==
    UNCHANGED <<seedObj, variant, pbVars, capVars, pegVars, liteVars, fnVars,
                insVars, oldVars, rfVars, fltVars, orphan>>

InsFrame ==
    UNCHANGED <<seedObj, variant, pbVars, capVars, pegVars, liteVars, fnVars,
                appVars, oldVars, rfVars, fltVars, orphan>>

OldFrame ==
    UNCHANGED <<seedObj, variant, pbVars, capVars, pegVars, liteVars, fnVars,
                appVars, insVars, rfVars, fltVars, orphan>>

RfFrame ==
    UNCHANGED <<seedObj, variant, pbVars, capVars, pegVars, liteVars, fnVars,
                appVars, insVars, oldVars, fltVars, orphan>>

FltFrame ==
    UNCHANGED <<seedObj, variant, pbVars, capVars, pegVars, liteVars, fnVars,
                appVars, insVars, oldVars, rfVars, orphan>>

FnFrame ==
    UNCHANGED <<seedObj, variant, pbVars, capVars, pegVars, liteVars, appVars, insVars,
                oldVars, rfVars, fltVars, orphan>>

\* mutant: the orders are the seed's own, with the default material in them
buildDemoResult_SharedOrders(code) ==
    LET clean == Trim(OrEmpty(code))
    IN  IF clean = <<>> THEN NULL
        ELSE IF clean = DEFAULT_MATERIAL THEN seedObj
        ELSE [seedObj EXCEPT !.material = clean]

\* mutant: the copy takes the code from the input field as it is now
buildDemoResult_FromInput(code) ==
    LET clean == Trim(OrEmpty(code))
    IN  IF clean = <<>> THEN NULL
        ELSE IF clean = DEFAULT_MATERIAL THEN seedObj
        ELSE [seedObj EXCEPT
                !.material = Trim(materialInput),
                !.ordens = [i \in DOMAIN seedObj.ordens |->
                              [seedObj.ordens[i] EXCEPT
                                 !.material = Trim(materialInput)]]]

(***************************************************************************)
(* buildDemoResult reads the seed object; for the default material it      *)
(* returns that object itself, for another one a copy with the code        *)
(* replaced in the record and in each order.                               *)
(***************************************************************************)
buildDemoResult(code) ==
    LET clean == Trim(OrEmpty(code))
    IN  IF clean = <<>> THEN NULL
        ELSE IF clean = DEFAULT_MATERIAL THEN seedObj
        ELSE [seedObj EXCEPT
                !.material = clean,
                !.ordens = [i \in DOMAIN seedObj.ordens |->
                              [seedObj.ordens[i] EXCEPT !.material = clean]]]

(***************************************************************************)
(* What the user can type into an identifier field.                        *)
(***************************************************************************)
PanelInputs ==
    { DEFAULT_MATERIAL,
      <<" ", "B", "7", " ">>,
      <<"a", "_", "1">>,
      <<" ", "\t">>,
      <<>> }

\* the characters the generated arguments of the pure functions are made of
SampleChars == {"A", "z", "7", "-", "_", ".", " ", "\t"}

FnStrings ==
    UNION {[1..k -> SampleChars] : k \in 0..MaxLen}
      \cup { DEFAULT_MATERIAL,
             <<" ">> \o DEFAULT_MATERIAL \o <<" ", " ">>,
             <<"a", "b", "c", "_", "1", "2", "3">>,
             <<" ", " ">> }

FnInputs == {Str(s) : s \in FnStrings} \cup {NullArg}

(***************************************************************************)
(* PlanningBoardIa.                                                        *)
(***************************************************************************)
PB_ERROR == "Nao foi possivel carregar o Planning Board IA."

\* the bodies the backend may answer GET /planning/board/{code} with
BoardJson(code) ==
    { [material |-> code, horizonte_semanas |-> 8, pegging_ordens |-> <<>>],
      NULL }

\* the base URL PlanningBoardIa hardcodes
API_BASE_LOCAL == "http://127.0.0.1:8000"

\* mutant: the pegging resource instead of the planning board's
PlanningBoardUrl_Pegging(code) ==
    <<API_BASE_LOCAL, "/pegging/ia-lite?material=", code>>

\* `${API_BASE}/planning/board/${code}`: the parts of the template in order
PlanningBoardUrl(code) == <<API_BASE_LOCAL, "/planning/board/", code>>

\* loadBoard(code) up to its first await
loadBoard(code) ==
    IF code = <<>>
    THEN UNCHANGED <<board, loadingBoard, pb_error, pb_reqs>>
    ELSE /\ loadingBoard' = TRUE
         /\ pb_error' = ""
         /\ pb_reqs' = Append(pb_reqs, [code |-> code,
                                        url |-> PlanningBoardUrl(code),
                                        pc |-> "fetch",
                                        ok |-> FALSE, json |-> NULL])
         /\ UNCHANGED board

\* the mount effect: loadBoard(materialCode)
PbMount ==
    /\ ~pb_mounted
    /\ pb_mounted' = TRUE
    /\ loadBoard(materialCode)
    /\ lastOp' = "pb_mount"
    /\ UNCHANGED <<materialCode>>
    /\ PbFrame

\* the input's onChange
PbChange(s) ==
    /\ pb_mounted
    /\ materialCode' = s
    /\ lastOp' = "pb_change"
    /\ UNCHANGED <<board, loadingBoard, pb_error, pb_mounted, pb_reqs>>
    /\ PbFrame

handleSubmit ==
    /\ pb_mounted
    /\ Trim(materialCode) = <<>> \/ Len(pb_reqs) < MaxRequests
    /\ IF materialCode = <<>>
       THEN UNCHANGED <<board, loadingBoard, pb_error, pb_reqs>>
       ELSE loadBoard(Trim(materialCode))
    /\ lastOp' = "pb_submit"
    /\ UNCHANGED <<materialCode, pb_mounted>>
    /\ PbFrame

\* mutant: the catch block without setBoard(null)
PbCatch_KeepsBoard(i) ==
    /\ pb_error' = PB_ERROR
    /\ loadingBoard' = FALSE
    /\ pb_reqs' = [pb_reqs EXCEPT ![i].pc = "done", ![i].ok = FALSE]
    /\ UNCHANGED board

\* loadBoard's catch and finally blocks, for the call pb_reqs[i]
PbCatch(i) ==
    /\ pb_error' = PB_ERROR
    /\ board' = NULL
    /\ loadingBoard' = FALSE
    /\ pb_reqs' = [pb_reqs EXCEPT ![i].pc = "done", ![i].ok = FALSE]

\* setBoard(json) and the finally block, for the call pb_reqs[i]
PbSetBoard(i, json) ==
    /\ board' = json
    /\ loadingBoard' = FALSE
    /\ pb_reqs' = [pb_reqs EXCEPT ![i].pc = "done", ![i].ok = TRUE,
                                  ![i].json = json]
    /\ UNCHANGED pb_error

\* await fetch(...) settles: a response with resp.ok, a response with
\* another status, or a rejection (network, CORS)
PbFetchSettles(i, r) ==
    /\ i \in DOMAIN pb_reqs
    /\ pb_reqs[i].pc = "fetch"
    /\ IF r = "ok"
       THEN /\ pb_reqs' = [pb_reqs EXCEPT ![i].pc = "json"]
            /\ lastOp' = "pb_resp_ok"
            /\ UNCHANGED <<board, loadingBoard, pb_error>>
       ELSE /\ PbCatch(i)
            /\ lastOp' = "pb_catch"
    /\ UNCHANGED <<materialCode, pb_mounted>>
    /\ PbFrame

\* await resp.json() settles with a body
PbJsonSettles(i, json) ==
    /\ i \in DOMAIN pb_reqs
    /\ pb_reqs[i].pc = "json"
    /\ json \in BoardJson(pb_reqs[i].code)
    /\ PbSetBoard(i, json)
    /\ lastOp' = "pb_setBoard"
    /\ UNCHANGED <<materialCode, pb_mounted>>
    /\ PbFrame

\* await resp.json() rejects (the body is not JSON)
PbJsonRejects(i) ==
    /\ i \in DOMAIN pb_reqs
    /\ pb_reqs[i].pc = "json"
    /\ PbCatch(i)
    /\ lastOp' = "pb_catch"
    /\ UNCHANGED <<materialCode, pb_mounted>>
    /\ PbFrame

\* what the render shows: the loading box, the error box, the board
PbShowsLoading == loadingBoard

PbShowsError == pb_error # ""

PbShowsBoard == board # NULL /\ ~loadingBoard

FetchOutcomes == {"ok", "status", "reject"}

(***************************************************************************)
(* CapacityIa.                                                             *)
(***************************************************************************)
CAP_ERROR == "Nao foi possivel carregar os dados de capacidade da IA."

\* the bodies the backend may answer GET /dashboard/capacity/ia with
CapJson ==
    { [total_recursos |-> 2,
       insights |-> << [recurso |-> "WC-10", utilizacao_pct |-> 85],
                       [recurso |-> "WC-20", utilizacao_pct |-> 112] >>],
      [total_recursos |-> 0, insights |-> <<>>],
      [total_recursos |-> 0,
       insights |-> << [recurso |-> "WC-30", utilizacao_pct |-> 40] >>],
      [total_recursos |-> 2],
      NULL }

\* the mount effect: fetchCapacity() up to its first await
CapMount ==
    /\ cap_pc = "init"
    /\ cap_loading' = TRUE
    /\ cap_error' = ""
    /\ cap_pc' = "fetch"
    /\ lastOp' = "cap_mount"
    /\ UNCHANGED cap_data
    /\ CapFrame

\* fetchCapacity's catch and finally blocks
CapCatch ==
    /\ cap_error' = CAP_ERROR
    /\ cap_data' = NULL
    /\ cap_loading' = FALSE
    /\ cap_pc' = "done"

\* setData(json || null) and the finally block
CapSetData(json) ==
    /\ cap_data' = (IF json = NULL THEN NULL ELSE json)
    /\ cap_loading' = FALSE
    /\ cap_pc' = "done"
    /\ UNCHANGED cap_error

CapFetchSettles(r) ==
    /\ cap_pc = "fetch"
    /\ IF r = "ok"
       THEN /\ cap_pc' = "json"
            /\ lastOp' = "cap_resp_ok"
            /\ UNCHANGED <<cap_data, cap_loading, cap_error>>
       ELSE /\ CapCatch
            /\ lastOp' = "cap_catch"
    /\ CapFrame

CapJsonSettles(json) ==
    /\ cap_pc = "json"
    /\ CapSetData(json)
    /\ lastOp' = "cap_setData"
    /\ CapFrame

CapJsonRejects ==
    /\ cap_pc = "json"
    /\ CapCatch
    /\ lastOp' = "cap_catch"
    /\ CapFrame

\* the three early returns of the render: loading, error, no data
CapShowsLoading == cap_loading

CapShowsError == ~cap_loading /\ cap_error # ""

CapShowsNoData == ~cap_loading /\ cap_error = "" /\ cap_data = NULL

\* the render reaches the destructuring of data
CapShowsBody == ~cap_loading /\ cap_error = "" /\ cap_data # NULL

\* total_recursos = 0 and insights = [] are the destructuring defaults
CapTotalRecursos(data) ==
    IF "total_recursos" \in DOMAIN data THEN data.total_recursos ELSE 0

\* safeInsights
CapSafeInsights(data) ==
    IF "insights" \in DOMAIN data THEN data.insights ELSE <<>>

\* the two "Nenhum recurso ..." messages in place of the chart and the cards
CapShowsEmptyMsgs == CapShowsBody /\ Len(CapSafeInsights(cap_data)) = 0

\* the chart and the insight cards
CapShowsResources == CapShowsBody /\ Len(CapSafeInsights(cap_data)) > 0

(***************************************************************************)
(* PeggingIaLite with demo data.                                           *)
(***************************************************************************)
PEG_INVALID == "Informe um codigo de material valido. Ex: \"4011835-AA\"."

PEG_ERROR ==
    "Nao foi possivel carregar o Pegging IA para este material. Tente novamente."

\* the bodies the backend may answer GET /pegging/ia-lite?material={code} with
PegJson(code) ==
    { [material |-> code, total_ordens_vinculadas |-> 1,
       ordens |-> << [ordem |-> "00000071", material |-> code,
                      atraso_dias |-> 2, criticidade_score |-> "88.0"] >>],
      [material |-> code, ordens |-> <<>>, sem_ordens |-> TRUE],
      [material |-> code, sem_ordens |-> TRUE,
       ordens |-> << [ordem |-> "00000072", material |-> code,
                      atraso_dias |-> 0, criticidade_score |-> "10.0"] >>],
      NULL }

\* mutant: a button that is never disabled
ButtonEnabled_Always == TRUE

\* the button is rendered with disabled={loading}
ButtonEnabled == ~loading

\* Array.isArray(result?.ordens) ? result.ordens : []
Ordens(r) == IF "ordens" \in DOMAIN r THEN r.ordens ELSE <<>>

\* result.sem_ordens as a condition
SemOrdens(r) == "sem_ordens" \in DOMAIN r /\ r.sem_ordens

nenhumaOrdem ==
    /\ ~loading
    /\ error = ""
    /\ result # NULL
    /\ Len(Ordens(result)) = 0 \/ SemOrdens(result)

\* the render: the summary cards and the order detail cards
PegShowsSummary == result # NULL /\ ~loading /\ error = ""

PegShowsCards == Len(Ordens(result)) > 0

\* mutant: the rejection without setResult(null)
PegRejectInput_KeepsResult ==
    /\ error' = PEG_INVALID
    /\ UNCHANGED <<result, loading, peg_reqs>>

\* the branch taken when the validator rejects the input
PegRejectInput ==
    /\ error' = PEG_INVALID
    /\ result' = NULL
    /\ UNCHANGED <<loading, peg_reqs>>

\* mutant: the start of a request without setResult(null)
PegStart_KeepsResult(code) ==
    /\ loading' = TRUE
    /\ error' = ""
    /\ peg_reqs' = Append(peg_reqs, [code |-> code, pc |-> "fetch",
                                     how |-> "pending"])
    /\ UNCHANGED result

\* the start of the try block, up to await fetch(...)
PegStart(code) ==
    /\ loading' = TRUE
    /\ error' = ""
    /\ result' = NULL
    /\ peg_reqs' = Append(peg_reqs, [code |-> code, pc |-> "fetch",
                                     how |-> "pending"])

\* handleLoadPegging up to its first await
handleLoadPegging ==
    LET code == Trim(materialInput)
    IN  /\ variant = "demo"
        /\ ButtonEnabled
        /\ IF ~isValidMaterial(Str(code))
           THEN /\ PegRejectInput
                /\ lastOp' = "peg_invalid"
           ELSE /\ Len(peg_reqs) < MaxPegRequests
                /\ PegStart(code)
                /\ lastOp' = "peg_request"
        /\ UNCHANGED materialInput
        /\ PegFrame

\* mutant: an onChange that also clears the result
PegChange_ClearsResult(s) ==
    /\ variant = "demo"
    /\ materialInput' = s
    /\ result' = NULL
    /\ lastOp' = "peg_change"
    /\ UNCHANGED <<loading, error, peg_reqs>>
    /\ PegFrame

\* the input's onChange
PegChange(s) ==
    /\ variant = "demo"
    /\ materialInput' = s
    /\ lastOp' = "peg_change"
    /\ UNCHANGED <<loading, error, result, peg_reqs>>
    /\ PegFrame

\* mutant: the early return leaving before the finally block
PegNotOk_SkipsFinally(i) ==
    /\ result' = buildDemoResult(Str(peg_reqs[i].code))
    /\ peg_reqs' = [peg_reqs EXCEPT ![i].pc = "done", ![i].how = "demo"]
    /\ UNCHANGED <<loading, error>>

\* mutant: the demo data built from the field as it is when the response
\* arrives
PegNotOk_CurrentInput(i) ==
    LET demo == buildDemoResult(Str(materialInput))
    IN  IF demo # NULL
        THEN /\ result' = demo
             /\ loading' = FALSE
             /\ peg_reqs' = [peg_reqs EXCEPT ![i].pc = "done", ![i].how = "demo"]
             /\ UNCHANGED error
        ELSE /\ error' = PEG_ERROR
             /\ loading' = FALSE
             /\ peg_reqs' = [peg_reqs EXCEPT ![i].pc = "done", ![i].how = "error"]
             /\ UNCHANGED result

\* the branch taken on !resp.ok, then finally
PegNotOk(i) ==
    LET demo == buildDemoResult(Str(peg_reqs[i].code))
    IN  IF demo # NULL
        THEN \* setResult(demo); return
             /\ result' = demo
             /\ loading' = FALSE
             /\ peg_reqs' = [peg_reqs EXCEPT ![i].pc = "done", ![i].how = "demo"]
             /\ UNCHANGED error
        ELSE \* throw, caught below with demo null again
             /\ error' = PEG_ERROR
             /\ loading' = FALSE
             /\ peg_reqs' = [peg_reqs EXCEPT ![i].pc = "done", ![i].how = "error"]
             /\ UNCHANGED result

\* mutant: the catch block of the variant without demo data
PegCatch_NoFallback(i) ==
    /\ error' = PEG_ERROR
    /\ loading' = FALSE
    /\ peg_reqs' = [peg_reqs EXCEPT ![i].pc = "done", ![i].how = "error"]
    /\ UNCHANGED result

\* mutant: the catch block issuing the request once more
PegCatch_Retry(i) ==
    /\ error' = ""
    /\ loading' = TRUE
    /\ peg_reqs' = Append([peg_reqs EXCEPT ![i].pc = "done", ![i].how = "error"],
                          [code |-> peg_reqs[i].code, pc |-> "fetch",
                           how |-> "pending"])
    /\ UNCHANGED result

\* the catch block, then finally
PegCatch(i) ==
    LET demo == buildDemoResult(Str(peg_reqs[i].code))
    IN  IF demo # NULL
        THEN /\ result' = demo
             /\ error' = ""
             /\ loading' = FALSE
             /\ peg_reqs' = [peg_reqs EXCEPT ![i].pc = "done", ![i].how = "demo"]
        ELSE /\ error' = PEG_ERROR
             /\ loading' = FALSE
             /\ peg_reqs' = [peg_reqs EXCEPT ![i].pc = "done", ![i].how = "error"]
             /\ UNCHANGED result

\* setResult(json), then finally
PegSetResult(i, json) ==
    /\ result' = json
    /\ loading' = FALSE
    /\ peg_reqs' = [peg_reqs EXCEPT ![i].pc = "done", ![i].how = "backend"]
    /\ UNCHANGED error

PegFetchSettles(i, r) ==
    /\ i \in DOMAIN peg_reqs
    /\ peg_reqs[i].pc = "fetch"
    /\ CASE r = "ok" ->
              /\ peg_reqs' = [peg_reqs EXCEPT ![i].pc = "json"]
              /\ lastOp' = "peg_resp_ok"
              /\ UNCHANGED <<loading, error, result>>
         [] r = "status" ->
              /\ PegNotOk(i)
              /\ lastOp' = "peg_not_ok"
         [] r = "reject" ->
              /\ PegCatch(i)
              /\ lastOp' = "peg_catch"
    /\ UNCHANGED materialInput
    /\ PegFrame

PegJsonSettles(i, json) ==
    /\ i \in DOMAIN peg_reqs
    /\ peg_reqs[i].pc = "json"
    /\ json \in PegJson(peg_reqs[i].code)
    /\ PegSetResult(i, json)
    /\ lastOp' = "peg_setResult"
    /\ UNCHANGED materialInput
    /\ PegFrame

PegJsonRejects(i) ==
    /\ i \in DOMAIN peg_reqs
    /\ peg_reqs[i].pc = "json"
    /\ PegCatch(i)
    /\ lastOp' = "peg_catch"
    /\ UNCHANGED materialInput
    /\ PegFrame

(***************************************************************************)
(* PeggingIaLite without demo data (frontend/src/PeggingIaLite.js).        *)
(***************************************************************************)
\* the button is rendered with disabled={loading}
LiteButtonEnabled == ~lite_loading

LiteNenhumaOrdem ==
    /\ ~lite_loading
    /\ lite_error = ""
    /\ lite_result # NULL
    /\ Len(Ordens(lite_result)) = 0 \/ SemOrdens(lite_result)

LiteShowsSummary == lite_result # NULL /\ ~lite_loading /\ lite_error = ""

LiteShowsCards == Len(Ordens(lite_result)) > 0

\* the branch taken when the validator rejects the input
LiteRejectInput ==
    /\ lite_error' = PEG_INVALID
    /\ lite_result' = NULL
    /\ UNCHANGED <<lite_loading, lite_reqs>>

\* the start of the try block, up to await fetch(...)
LiteStart(code) ==
    /\ lite_loading' = TRUE
    /\ lite_error' = ""
    /\ lite_result' = NULL
    /\ lite_reqs' = Append(lite_reqs, [code |-> code, pc |-> "fetch",
                                       how |-> "pending"])

\* handleLoadPegging up to its first await
LiteHandleLoadPegging ==
    LET code == Trim(lite_materialInput)
    IN  /\ variant = "lite"
        /\ LiteButtonEnabled
        /\ IF ~isValidMaterial(Str(code))
           THEN /\ LiteRejectInput
                /\ lastOp' = "lite_invalid"
           ELSE /\ Len(lite_reqs) < MaxPegRequests
                /\ LiteStart(code)
                /\ lastOp' = "lite_request"
        /\ UNCHANGED lite_materialInput
        /\ LiteFrame

\* the input's onChange
LiteChange(s) ==
    /\ variant = "lite"
    /\ lite_materialInput' = s
    /\ lastOp' = "lite_change"
    /\ UNCHANGED <<lite_loading, lite_error, lite_result, lite_reqs>>
    /\ LiteFrame

\* mutant: the catch block of the variant with demo data
LiteCatch_Demo(i) ==
    LET demo == buildDemoResult(Str(lite_reqs[i].code))
    IN  IF demo # NULL
        THEN /\ lite_result' = demo
             /\ lite_error' = ""
             /\ lite_loading' = FALSE
             /\ lite_reqs' = [lite_reqs EXCEPT ![i].pc = "done",
                                               ![i].how = "demo"]
        ELSE /\ lite_error' = PEG_ERROR
             /\ lite_loading' = FALSE
             /\ lite_reqs' = [lite_reqs EXCEPT ![i].pc = "done",
                                               ![i].how = "error"]
             /\ UNCHANGED lite_result

\* the catch block, then finally
LiteCatch(i) ==
    /\ lite_error' = PEG_ERROR
    /\ lite_loading' = FALSE
    /\ lite_reqs' = [lite_reqs EXCEPT ![i].pc = "done", ![i].how = "error"]
    /\ UNCHANGED lite_result

\* setResult(json), then finally
LiteSetResult(i, json) ==
    /\ lite_result' = json
    /\ lite_loading' = FALSE
    /\ lite_reqs' = [lite_reqs EXCEPT ![i].pc = "done", ![i].how = "backend"]
    /\ UNCHANGED lite_error

LiteFetchSettles(i, r) ==
    /\ i \in DOMAIN lite_reqs
    /\ lite_reqs[i].pc = "fetch"
    /\ IF r = "ok"
       THEN /\ lite_reqs' = [lite_reqs EXCEPT ![i].pc = "json"]
            /\ lastOp' = "lite_resp_ok"
            /\ UNCHANGED <<lite_loading, lite_error, lite_result>>
       ELSE /\ LiteCatch(i)
            /\ lastOp' = "lite_catch"
    /\ UNCHANGED lite_materialInput
    /\ LiteFrame

LiteJsonSettles(i, json) ==
    /\ i \in DOMAIN lite_reqs
    /\ lite_reqs[i].pc = "json"
    /\ json \in PegJson(lite_reqs[i].code)
    /\ LiteSetResult(i, json)
    /\ lastOp' = "lite_setResult"
    /\ UNCHANGED lite_materialInput
    /\ LiteFrame

LiteJsonRejects(i) ==
    /\ i \in DOMAIN lite_reqs
    /\ lite_reqs[i].pc = "json"
    /\ LiteCatch(i)
    /\ lastOp' = "lite_catch"
    /\ UNCHANGED lite_materialInput
    /\ LiteFrame

(***************************************************************************)
(* IaInsightsPanel, rendered by App without a filterTipo.                  *)
(***************************************************************************)
\* the bodies the backend may answer GET /dashboard/insights with
InsJson ==
    { [insights |-> << [tipo |-> "material", severidade |-> "alto"] >>],
      [insights |-> <<>>],
      [detail |-> "sem dados"],
      NULL }

\* data.insights || []  (filterTipo is undefined: no filter is applied)
InsItems(data) ==
    IF "insights" \in DOMAIN data THEN data.insights ELSE <<>>

\* the effect on [filterTipo]: fetchInsights() up to its first await
InsMount ==
    /\ ins_pc = "init"
    /\ ins_loading' = TRUE
    /\ ins_error' = NULL
    /\ ins_pc' = "fetch"
    /\ lastOp' = "ins_mount"
    /\ UNCHANGED ins_insights
    /\ InsFrame

\* the catch block with the message of what was thrown, then finally
InsCatch(msg) ==
    /\ ins_error' = [message |-> msg]
    /\ ins_loading' = FALSE
    /\ ins_pc' = "done"
    /\ UNCHANGED ins_insights

InsFetchSettles(r) ==
    /\ ins_pc = "fetch"
    /\ CASE r = "ok" ->
              /\ ins_pc' = "json"
              /\ lastOp' = "ins_resp_ok"
              /\ UNCHANGED <<ins_insights, ins_loading, ins_error>>
         [] r = "status" ->
              /\ InsCatch("Erro ao buscar insights: 500")
              /\ lastOp' = "ins_catch"
         [] r = "reject" ->
              /\ InsCatch("Failed to fetch")
              /\ lastOp' = "ins_catch"
    /\ InsFrame

\* await res.json() settles with a body; reading .insights of null throws
InsJsonSettles(data) ==
    /\ ins_pc = "json"
    /\ IF data = NULL
       THEN /\ InsCatch("Cannot read properties of null (reading 'insights')")
            /\ lastOp' = "ins_catch"
       ELSE /\ ins_insights' = InsItems(data)
            /\ ins_loading' = FALSE
            /\ ins_pc' = "done"
            /\ lastOp' = "ins_setInsights"
            /\ UNCHANGED ins_error
    /\ InsFrame

InsJsonRejects ==
    /\ ins_pc = "json"
    /\ InsCatch("Unexpected token < in JSON at position 0")
    /\ lastOp' = "ins_catch"
    /\ InsFrame

(***************************************************************************)
(* IaInsightsPanel under a parent that passes filterTipo.  A filterTipo    *)
(* that is not passed and the empty string behave alike in the one test    *)
(* the component makes (if (filterTipo)); both are "" here.                *)
(***************************************************************************)
FilterTipos == {"", "material", "ordem"}

\* the bodies the backend may answer GET /dashboard/insights with
FltJson ==
    { [insights |-> << [tipo |-> "material", titulo |-> "m1"],
                       [tipo |-> "ordem", titulo |-> "o1"],
                       [tipo |-> "material", titulo |-> "m2"] >>],
      [insights |-> << [tipo |-> "ordem", titulo |-> "o2"] >>],
      [detail |-> "sem dados"],
      NULL }

\* mutant: the filter keeping the elements of every other tipo
FilterItems_Inverted(items, tipo) ==
    IF tipo # ""
    THEN SelectSeq(items, LAMBDA i : i.tipo # tipo)
    ELSE items

\* if (filterTipo) items = items.filter((i) => i.tipo === filterTipo)
FilterItems(items, tipo) ==
    IF tipo # ""
    THEN SelectSeq(items, LAMBDA i : i.tipo = tipo)
    ELSE items

\* the effect on [filterTipo]: fetchInsights() up to its first await; the
\* call keeps the filterTipo of the render that started it
FltEffect ==
    /\ flt_effect
    /\ Len(flt_reqs) < MaxRequests
    /\ flt_effect' = FALSE
    /\ flt_loading' = TRUE
    /\ flt_error' = NULL
    /\ flt_reqs' = Append(flt_reqs, [filterTipo |-> flt_filterTipo,
                                     pc |-> "fetch", ok |-> FALSE,
                                     data |-> NULL])
    /\ lastOp' = "flt_effect"
    /\ UNCHANGED <<flt_filterTipo, flt_insights>>
    /\ FltFrame

\* the parent renders the panel with another filterTipo
FltPropChange(t) ==
    /\ ~flt_effect
    /\ t # flt_filterTipo
    /\ flt_filterTipo' = t
    /\ flt_effect' = TRUE
    /\ lastOp' = "flt_prop"
    /\ UNCHANGED <<flt_insights, flt_loading, flt_error, flt_reqs>>
    /\ FltFrame

\* the catch block with the message of what was thrown, then finally
FltCatch(i, msg) ==
    /\ flt_error' = [message |-> msg]
    /\ flt_loading' = FALSE
    /\ flt_reqs' = [flt_reqs EXCEPT ![i].pc = "done", ![i].ok = FALSE]
    /\ UNCHANGED flt_insights

FltFetchSettles(i, r) ==
    /\ i \in DOMAIN flt_reqs
    /\ flt_reqs[i].pc = "fetch"
    /\ CASE r = "ok" ->
              /\ flt_reqs' = [flt_reqs EXCEPT ![i].pc = "json"]
              /\ lastOp' = "flt_resp_ok"
              /\ UNCHANGED <<flt_insights, flt_loading, flt_error>>
         [] r = "status" ->
              /\ FltCatch(i, "Erro ao buscar insights: 500")
              /\ lastOp' = "flt_catch"
         [] r = "reject" ->
              /\ FltCatch(i, "Failed to fetch")
              /\ lastOp' = "flt_catch"
    /\ UNCHANGED <<flt_filterTipo, flt_effect>>
    /\ FltFrame

\* await res.json() settles with a body; reading .insights of null throws
FltJsonSettles(i, data) ==
    /\ i \in DOMAIN flt_reqs
    /\ flt_reqs[i].pc = "json"
    /\ data \in FltJson
    /\ IF data = NULL
       THEN /\ FltCatch(i, "Cannot read properties of null (reading 'insights')")
            /\ lastOp' = "flt_catch"
       ELSE /\ flt_insights' = FilterItems(InsItems(data), flt_reqs[i].filterTipo)
            /\ flt_loading' = FALSE
            /\ flt_reqs' = [flt_reqs EXCEPT ![i].pc = "done", ![i].ok = TRUE,
                                            ![i].data = data]
            /\ lastOp' = "flt_setInsights"
            /\ UNCHANGED flt_error
    /\ UNCHANGED <<flt_filterTipo, flt_effect>>
    /\ FltFrame

FltJsonRejects(i) ==
    /\ i \in DOMAIN flt_reqs
    /\ flt_reqs[i].pc = "json"
    /\ FltCatch(i, "Unexpected token < in JSON at position 0")
    /\ lastOp' = "flt_catch"
    /\ UNCHANGED <<flt_filterTipo, flt_effect>>
    /\ FltFrame

(***************************************************************************)
(* App: the summary fetch, the tabs and the panels they render.            *)
(***************************************************************************)
APP_ERROR == "Nao foi possivel carregar os dados do backend."

Tabs == {"overview", "materials", "orders", "resources", "planning", "pegging"}

\* the bodies the backend may answer GET /dashboard/summary with
SummaryJson ==
    { [kpis |-> [total_materiais |-> 3], criticos |-> <<>>,
       ordens_criticas |-> <<>>],
      NULL }

\* the condition under which the render includes the content of a tab
AppShows(tab) ==
    /\ ~app_loading
    /\ app_error = ""
    /\ activeTab = tab
    /\ tab \in {"overview", "materials", "orders"} => app_data # NULL

\* the mount effect: fetchData() up to its first await
AppMount ==
    /\ app_pc = "init"
    /\ app_pc' = "fetch"
    /\ lastOp' = "app_mount"
    /\ UNCHANGED <<app_data, app_loading, app_error, activeTab>>
    /\ AppFrame

\* fetchData's catch and finally blocks
AppCatch ==
    /\ app_error' = APP_ERROR
    /\ app_loading' = FALSE
    /\ app_pc' = "done"
    /\ UNCHANGED app_data

AppFetchSettles(r) ==
    /\ app_pc = "fetch"
    /\ IF r = "ok"
       THEN /\ app_pc' = "json"
            /\ lastOp' = "app_resp_ok"
            /\ UNCHANGED <<app_data, app_loading, app_error>>
       ELSE /\ AppCatch
            /\ lastOp' = "app_catch"
    /\ UNCHANGED activeTab
    /\ AppFrame

\* setData(json); setError(""); then finally
AppJsonSettles(json) ==
    /\ app_pc = "json"
    /\ app_data' = json
    /\ app_error' = ""
    /\ app_loading' = FALSE
    /\ app_pc' = "done"
    /\ lastOp' = "app_setData"
    /\ UNCHANGED activeTab
    /\ AppFrame

AppJsonRejects ==
    /\ app_pc = "json"
    /\ AppCatch
    /\ lastOp' = "app_catch"
    /\ UNCHANGED activeTab
    /\ AppFrame

\* the requests of unmounted panels are not followed
OrphanOff == [track |-> FALSE, reqs |-> {}]

\* the requests the mounted panels are waiting for
PendingRequests ==
    {[panel |-> "planning", code |-> pb_reqs[i].code] :
        i \in {j \in DOMAIN pb_reqs : pb_reqs[j].pc # "done"}}
      \cup {[panel |-> "pegging", code |-> peg_reqs[i].code] :
              i \in {j \in DOMAIN peg_reqs : peg_reqs[j].pc # "done"}}
      \cup {[panel |-> "pegging", code |-> lite_reqs[i].code] :
              i \in {j \in DOMAIN lite_reqs : lite_reqs[j].pc # "done"}}
      \cup (IF cap_pc \in {"fetch", "json"}
            THEN {[panel |-> "resources", code |-> <<>>]}
            ELSE {})
      \cup (IF ins_pc \in {"fetch", "json"}
            THEN {[panel |-> "overview", code |-> <<>>]}
            ELSE {})

\* the panels of a tab that is left are unmounted: their state is dropped
\* and what their pending requests do later changes nothing on the page
UnmountPanels ==
    /\ materialCode' = DEFAULT_MATERIAL
    /\ board' = NULL
    /\ loadingBoard' = FALSE
    /\ pb_error' = ""
    /\ pb_mounted' = FALSE
    /\ pb_reqs' = <<>>
    /\ cap_data' = NULL
    /\ cap_loading' = TRUE
    /\ cap_error' = ""
    /\ cap_pc' = "init"
    /\ materialInput' = DEFAULT_MATERIAL
    /\ loading' = FALSE
    /\ error' = ""
    /\ result' = NULL
    /\ peg_reqs' = <<>>
    /\ lite_materialInput' = DEFAULT_MATERIAL
    /\ lite_loading' = FALSE
    /\ lite_error' = ""
    /\ lite_result' = NULL
    /\ lite_reqs' = <<>>
    /\ ins_insights' = <<>>
    /\ ins_loading' = TRUE
    /\ ins_error' = NULL
    /\ ins_pc' = "init"

\* a menu button's onClick: setActiveTab(tab); with the tab that is active
\* already the state is the same and nothing is rendered again
setActiveTab(tab) ==
    /\ tab \in Tabs
    /\ tab # activeTab
    /\ activeTab' = tab
    /\ UnmountPanels
    /\ IF orphan.track
       THEN /\ Cardinality(orphan.reqs \cup PendingRequests) <= MaxOrphans
            /\ orphan' = [orphan EXCEPT !.reqs = @ \cup PendingRequests]
       ELSE UNCHANGED orphan
    /\ lastOp' = "setActiveTab"
    /\ UNCHANGED <<app_data, app_loading, app_error, app_pc>>
    /\ UNCHANGED <<seedObj, variant, fnVars, oldVars, rfVars, fltVars>>

\* mutant: the response of an unmounted planning board stored in the
\* state of the instance that is mounted now
OrphanSettles_SharedState(r) ==
    /\ r \in orphan.reqs
    /\ orphan' = [orphan EXCEPT !.reqs = @ \ {r}]
    /\ board' = [material |-> r.code]
    /\ loadingBoard' = FALSE
    /\ lastOp' = "orphan_settles"
    /\ UNCHANGED <<materialCode, pb_error, pb_mounted, pb_reqs>>
    /\ UNCHANGED <<seedObj, variant, capVars, pegVars, liteVars, fnVars,
                   appVars, insVars, oldVars, rfVars, fltVars>>

\* a request of an unmounted panel resolves: the rest of its handler calls
\* the state setters of the instance that issued it, which is gone; the
\* state of the instance mounted now belongs to another useState
OrphanSettles(r) ==
    /\ r \in orphan.reqs
    /\ orphan' = [orphan EXCEPT !.reqs = @ \ {r}]
    /\ lastOp' = "orphan_settles"
    /\ UNCHANGED <<seedObj, variant, pbVars, capVars, pegVars, liteVars,
                   fnVars, appVars, insVars, oldVars, rfVars, fltVars>>

(***************************************************************************)
(* "PeggingIaLite - OLD.js": the pegging panel that takes materialCode as  *)
(* a prop.  A prop that is not passed and the empty string behave alike in *)
(* every test the component makes; both are <<>> here.                     *)
(***************************************************************************)
OLD_ERROR == "Falha ao carregar Pegging IA para o material informado."

\* the values the parent may pass as materialCode
OldProps == {<<>>, DEFAULT_MATERIAL, <<"B", "7">>}

\* what the user may type into the panel's field
OldInputs == {<<>>, DEFAULT_MATERIAL, <<" ", "B", "7">>}

\* the bodies the backend may answer GET /planning/board/{mat} with
OldJson(mat) ==
    { [material |-> mat,
       pegging_ordens |-> << [ordem |-> "00000071", dias_atraso |-> 2] >>],
      [material |-> mat, pegging_ordens |-> <<>>] }

\* fetchPegging(mat) up to its first await
fetchPegging(mat) ==
    IF mat = <<>>
    THEN UNCHANGED <<old_loading, old_error, old_reqs>>
    ELSE /\ old_loading' = TRUE
         /\ old_error' = ""
         /\ old_reqs' = Append(old_reqs, [code |-> mat, pc |-> "fetch",
                                          ok |-> FALSE, json |-> NULL])

\* the effect on [materialCode]
OldEffect ==
    /\ old_effect
    /\ old_effect' = FALSE
    /\ old_materialCode = <<>> \/ Len(old_reqs) < MaxRequests
    /\ IF old_materialCode # <<>>
       THEN /\ old_material' = old_materialCode
            /\ old_effectiveMaterial' = old_materialCode
            /\ fetchPegging(old_materialCode)
       ELSE UNCHANGED <<old_material, old_effectiveMaterial, old_loading,
                        old_error, old_reqs>>
    /\ lastOp' = "old_effect"
    /\ UNCHANGED <<old_materialCode, old_data>>
    /\ OldFrame

\* the parent renders the panel with another materialCode
OldPropChange(p) ==
    /\ ~old_effect
    /\ p # old_materialCode
    /\ old_materialCode' = p
    /\ old_effect' = TRUE
    /\ lastOp' = "old_prop"
    /\ UNCHANGED <<old_material, old_effectiveMaterial, old_data, old_loading,
                   old_error, old_reqs>>
    /\ OldFrame

\* the input and the button are rendered only when !materialCode
OldFilterShown == old_materialCode = <<>>

\* the input's onChange
OldChange(s) ==
    /\ ~old_effect
    /\ OldFilterShown
    /\ old_material' = s
    /\ lastOp' = "old_change"
    /\ UNCHANGED <<old_materialCode, old_effect, old_effectiveMaterial,
                   old_data, old_loading, old_error, old_reqs>>
    /\ OldFrame

handleLoadClick ==
    /\ ~old_effect
    /\ OldFilterShown
    /\ old_material = <<>> \/ Len(old_reqs) < MaxRequests
    /\ old_effectiveMaterial' = old_material
    /\ fetchPegging(old_material)
    /\ lastOp' = "old_click"
    /\ UNCHANGED <<old_materialCode, old_effect, old_material, old_data>>
    /\ OldFrame

\* fetchPegging's catch and finally blocks, for the call old_reqs[i]
OldCatch(i) ==
    /\ old_error' = OLD_ERROR
    /\ old_loading' = FALSE
    /\ old_reqs' = [old_reqs EXCEPT ![i].pc = "done", ![i].ok = FALSE]
    /\ UNCHANGED old_data

OldFetchSettles(i, r) ==
    /\ i \in DOMAIN old_reqs
    /\ old_reqs[i].pc = "fetch"
    /\ IF r = "ok"
       THEN /\ old_reqs' = [old_reqs EXCEPT ![i].pc = "json"]
            /\ lastOp' = "old_resp_ok"
            /\ UNCHANGED <<old_data, old_loading, old_error>>
       ELSE /\ OldCatch(i)
            /\ lastOp' = "old_catch"
    /\ UNCHANGED <<old_materialCode, old_effect, old_material,
                   old_effectiveMaterial>>
    /\ OldFrame

\* setData(json), then finally
OldJsonSettles(i, json) ==
    /\ i \in DOMAIN old_reqs
    /\ old_reqs[i].pc = "json"
    /\ json \in OldJson(old_reqs[i].code)
    /\ old_data' = json
    /\ old_loading' = FALSE
    /\ old_reqs' = [old_reqs EXCEPT ![i].pc = "done", ![i].ok = TRUE,
                                    ![i].json = json]
    /\ lastOp' = "old_setData"
    /\ UNCHANGED <<old_materialCode, old_effect, old_material,
                   old_effectiveMaterial, old_error>>
    /\ OldFrame

OldJsonRejects(i) ==
    /\ i \in DOMAIN old_reqs
    /\ old_reqs[i].pc = "json"
    /\ OldCatch(i)
    /\ lastOp' = "old_catch"
    /\ UNCHANGED <<old_materialCode, old_effect, old_material,
                   old_effectiveMaterial>>
    /\ OldFrame

\* the render: the KPI cards and the table of data
OldShowsData == ~old_loading /\ old_error = "" /\ old_data # NULL

(***************************************************************************)
(* What the renders compute from a payload, applied to one argument.       *)
(***************************************************************************)
\* the value of a capacity payload's insights field: an array, or something
\* that is not one (undefined, null, a string, an object)
JsArray(items) == [type |-> "array", items |-> items]

JsOther(t) == [type |-> t, items |-> <<>>]

\* insights = [] on undefined, then Array.isArray(insights) ? insights : []
safeInsights(v) == IF v.type = "array" THEN v.items ELSE <<>>

\* r?.utilizacao_pct ?? 0
utilizacao(r) == IF "utilizacao_pct" \in DOMAIN r THEN r.utilizacao_pct ELSE 0

\* Array.prototype.sort with (a, b) => utilizacao(b) - utilizacao(a): x goes
\* before the first element the comparator puts after it (the sort is stable)
RECURSIVE InsertSorted(_, _)
InsertSorted(sorted, x) ==
    IF sorted = <<>>
    THEN <<x>>
    ELSE IF utilizacao(Head(sorted)) < utilizacao(x)
         THEN <<x>> \o sorted
         ELSE <<Head(sorted)>> \o InsertSorted(Tail(sorted), x)

RECURSIVE SortDesc(_)
SortDesc(items) ==
    IF items = <<>>
    THEN <<>>
    ELSE InsertSorted(SortDesc(SubSeq(items, 1, Len(items) - 1)),
                      items[Len(items)])

\* [...safeInsights].sort(...)
sortedResources(v) == SortDesc(safeInsights(v))

\* String.prototype.toLowerCase on the letters A-Z
UpperSeq ==
    <<"A", "B", "C", "D", "E", "F", "G", "H", "I", "J", "K", "L", "M",
      "N", "O", "P", "Q", "R", "S", "T", "U", "V", "W", "X", "Y", "Z">>

LowerSeq ==
    <<"a", "b", "c", "d", "e", "f", "g", "h", "i", "j", "k", "l", "m",
      "n", "o", "p", "q", "r", "s", "t", "u", "v", "w", "x", "y", "z">>

toLowerCase(s) ==
    [i \in 1..Len(s) |->
        IF \E k \in 1..26 : UpperSeq[k] = s[i]
        THEN LowerSeq[CHOOSE k \in 1..26 : UpperSeq[k] = s[i]]
        ELSE s[i]]

GARGALO == <<"g", "a", "r", "g", "a", "l", "o">>

\* mutant: the bottleneck test with utilizacao >= 100
isGargalo_AtLeast100(r) ==
    \/ /\ "categoria" \in DOMAIN r
       /\ r.categoria # <<>>
       /\ toLowerCase(r.categoria) = GARGALO
    \/ utilizacao(r) >= 100

\* (r.categoria && r.categoria.toLowerCase() === "gargalo") || utilizacao > 100
isGargalo(r) ==
    \/ /\ "categoria" \in DOMAIN r
       /\ r.categoria # <<>>
       /\ toLowerCase(r.categoria) = GARGALO
    \/ utilizacao(r) > 100

\* the class of a resource's card and whether its badge is rendered
cardClass(r) ==
    [class |-> IF isGargalo(r) THEN "capacity-critical"
               ELSE IF utilizacao(r) < 90 THEN "capacity-low"
               ELSE "capacity-normal",
     badge |-> isGargalo(r)]

\* the resources the lists given to sortedResources are made of
SortResources ==
    { [recurso |-> "WC-10", utilizacao_pct |-> 85],
      [recurso |-> "WC-20", utilizacao_pct |-> 112],
      [recurso |-> "WC-30"],
      [recurso |-> "WC-40", utilizacao_pct |-> 85],
      [recurso |-> "WC-50", utilizacao_pct |-> 0] }

RECURSIVE SeqsUpTo(_, _)
SeqsUpTo(S, n) ==
    IF n = 0
    THEN {<<>>}
    ELSE LET shorter == SeqsUpTo(S, n - 1)
         IN  shorter \cup {Append(q, x) : q \in shorter, x \in S}

InsightsValues ==
    {JsArray(q) : q \in SeqsUpTo(SortResources, MaxResources)}
        \cup {JsOther("undefined"), JsOther("null"), JsOther("string")}

\* the resources given to cardClass
CardUtilizacao == {40, 89, 90, 95, 100, 101, 112}

CardCategoria ==
    { GARGALO,
      <<"G", "a", "r", "g", "a", "l", "o">>,
      <<"G", "A", "R", "G", "A", "L", "O">>,
      <<"g", "a", "r", "g", "a", "l", "o", " ">>,
      <<"n", "o", "r", "m", "a", "l">>,
      <<>> }

CardResources ==
    {[recurso |-> "WC-10", utilizacao_pct |-> u] : u \in CardUtilizacao}
        \cup {[recurso |-> "WC-10", utilizacao_pct |-> u, categoria |-> c] :
                 u \in CardUtilizacao, c \in CardCategoria}
        \cup {[recurso |-> "WC-10", categoria |-> c] : c \in CardCategoria}
        \cup {[recurso |-> "WC-10"]}

\* m.criticidade_score ?? 0
criticidade_score(m) ==
    IF "criticidade_score" \in DOMAIN m THEN m.criticidade_score ELSE 0

\* data?.criticos || []
criticos(data) ==
    IF data # NULL /\ "criticos" \in DOMAIN data THEN data.criticos ELSE <<>>

\* data?.ordens_criticas || []
ordensCriticas(data) ==
    IF data # NULL /\ "ordens_criticas" \in DOMAIN data
    THEN data.ordens_criticas
    ELSE <<>>

\* data?.capacidade
capacidade(data) ==
    IF data # NULL /\ "capacidade" \in DOMAIN data
    THEN data.capacidade
    ELSE NULL

\* mutant: a material counts from a score above 80 on
highRiskMaterials_Above80(data) ==
    Len(SelectSeq(criticos(data), LAMBDA m : criticidade_score(m) > 80))

highRiskMaterials(data) ==
    Len(SelectSeq(criticos(data), LAMBDA m : criticidade_score(m) >= 80))

highRiskOrders(data) ==
    Len(SelectSeq(ordensCriticas(data), LAMBDA o : criticidade_score(o) >= 70))

\* capacidade?.recursos_acima_100 ?? 0
overloadedResources(data) ==
    IF capacidade(data) # NULL /\ "recursos_acima_100" \in DOMAIN capacidade(data)
    THEN capacidade(data).recursos_acima_100
    ELSE 0

\* the summaries the counters are computed from
CriticosItems ==
    { [material |-> "M-1", criticidade_score |-> 79],
      [material |-> "M-2", criticidade_score |-> 80],
      [material |-> "M-3", criticidade_score |-> 93],
      [material |-> "M-4"] }

OrdensItems ==
    { [ordem |-> "OP-1", criticidade_score |-> 69],
      [ordem |-> "OP-2", criticidade_score |-> 70],
      [ordem |-> "OP-3", criticidade_score |-> 80],
      [ordem |-> "OP-4"] }

CapacidadeValues ==
    { [total_recursos |-> 5, recursos_acima_100 |-> 2],
      [total_recursos |-> 5, recursos_acima_100 |-> 0],
      [total_recursos |-> 5] }

CounterData ==
    {NULL}
        \cup {[kpis |-> [total_materiais |-> 3], criticos |-> c,
               ordens_criticas |-> o, capacidade |-> k] :
                 c \in SeqsUpTo(CriticosItems, MaxResources),
                 o \in SeqsUpTo(OrdensItems, 1),
                 k \in CapacidadeValues}
        \cup {[kpis |-> [total_materiais |-> 3], criticos |-> c,
               ordens_criticas |-> o] :
                 c \in SeqsUpTo(CriticosItems, 1),
                 o \in SeqsUpTo(OrdensItems, MaxResources)}
        \cup {[kpis |-> [total_materiais |-> 3], capacidade |-> k] :
                 k \in CapacidadeValues \cup {NULL}}

\* board.series.<name> || []
seriesOf(series, name) ==
    IF name \in DOMAIN series THEN series[name] ELSE <<>>

\* mutant: a series shorter than labels repeats its last value
seriesAt_Clamped(arr, idx) ==
    IF idx \in DOMAIN arr
    THEN arr[idx]
    ELSE IF arr = <<>> THEN 0 ELSE arr[Len(arr)]

\* arr[idx] ?? 0
seriesAt(arr, idx) ==
    IF idx \in DOMAIN arr THEN arr[idx] ELSE 0

\* PlanningBoardIa's chartData
chartData(bd) ==
    IF /\ bd # NULL
       /\ "series" \in DOMAIN bd
       /\ bd.series # NULL
       /\ "labels" \in DOMAIN bd.series
    THEN LET labels == bd.series.labels
             demanda == seriesOf(bd.series, "demanda")
             estoqueNatural == seriesOf(bd.series, "estoque_natural")
             estoquePosIa == seriesOf(bd.series, "estoque_pos_ia")
             producaoIa == seriesOf(bd.series, "producao_ia")
         IN  [idx \in 1..Len(labels) |->
                 [semana |-> labels[idx],
                  demanda |-> seriesAt(demanda, idx),
                  estoque_natural |-> seriesAt(estoqueNatural, idx),
                  estoque_pos_ia |-> seriesAt(estoquePosIa, idx),
                  producao_ia |-> seriesAt(producaoIa, idx)]]
    ELSE <<>>

\* the boards chartData is computed from: the labels are the first weeks,
\* each series is absent or has up to one value more than there are weeks
WeekLabels == [i \in 1..MaxWeeks |-> <<"S", i>>]

SeriesValues(base) ==
    {[i \in 1..n |-> base + i] : n \in 0..(MaxWeeks + 1)}

ChartSeries ==
    LET opt(name, base) ==
            {<<>>} \cup {name :> v : v \in SeriesValues(base)}
        horizonte == [horizonte_semanas |-> MaxWeeks]
    IN  {horizonte @@ l @@ d @@ en @@ ep @@ pi :
            l \in {<<>>} \cup {"labels" :> SubSeq(WeekLabels, 1, n) :
                                 n \in 0..MaxWeeks},
            d \in opt("demanda", 10),
            en \in opt("estoque_natural", 20),
            ep \in opt("estoque_pos_ia", 30),
            pi \in opt("producao_ia", 40)}

ChartBoards ==
    { NULL,
      [material |-> DEFAULT_MATERIAL],
      [material |-> DEFAULT_MATERIAL, series |-> NULL] }
        \cup {[material |-> DEFAULT_MATERIAL, series |-> x] : x \in ChartSeries}

\* mutant: the sort applied to the payload's own array
CallSortedResources_InPlace ==
    /\ rf_fn = "sortedResources"
    /\ ~rf_done
    /\ rf_out' = sortedResources(rf_arg)
    /\ rf_arg' = [rf_arg EXCEPT !.items = sortedResources(rf_arg)]
    /\ rf_done' = TRUE
    /\ lastOp' = "sortedResources"
    /\ UNCHANGED <<rf_fn, rf_given>>
    /\ RfFrame

\* the render computes sortedResources from a copy of the payload's list
CallSortedResources ==
    /\ rf_fn = "sortedResources"
    /\ ~rf_done
    /\ rf_out' = sortedResources(rf_arg)
    /\ rf_done' = TRUE
    /\ lastOp' = "sortedResources"
    /\ UNCHANGED <<rf_fn, rf_arg, rf_given>>
    /\ RfFrame

\* the render computes the class of one resource's card
CallCardClass ==
    /\ rf_fn = "cardClass"
    /\ ~rf_done
    /\ rf_out' = cardClass(rf_arg)
    /\ rf_done' = TRUE
    /\ lastOp' = "cardClass"
    /\ UNCHANGED <<rf_fn, rf_arg, rf_given>>
    /\ RfFrame

\* App's render computes the three alert counters from data
CallCounters ==
    /\ rf_fn = "counters"
    /\ ~rf_done
    /\ rf_out' = [highRiskMaterials |-> highRiskMaterials(rf_arg),
                  highRiskOrders |-> highRiskOrders(rf_arg),
                  overloadedResources |-> overloadedResources(rf_arg)]
    /\ rf_done' = TRUE
    /\ lastOp' = "counters"
    /\ UNCHANGED <<rf_fn, rf_arg, rf_given>>
    /\ RfFrame

\* PlanningBoardIa's render computes chartData from board
CallChartData ==
    /\ rf_fn = "chartData"
    /\ ~rf_done
    /\ rf_out' = chartData(rf_arg)
    /\ rf_done' = TRUE
    /\ lastOp' = "chartData"
    /\ UNCHANGED <<rf_fn, rf_arg, rf_given>>
    /\ RfFrame

(***************************************************************************)
(* The pure functions applied to one argument.                             *)
(***************************************************************************)
CallIsValidMaterial ==
    /\ "isValidMaterial" \notin fn_calls
    /\ fn_valid' = isValidMaterial(fn_arg)
    /\ fn_calls' = fn_calls \cup {"isValidMaterial"}
    /\ lastOp' = "isValidMaterial"
    /\ UNCHANGED <<fn_arg, fn_demo>>
    /\ FnFrame

CallBuildDemoResult ==
    /\ "buildDemoResult" \notin fn_calls
    /\ fn_demo' = buildDemoResult(fn_arg)
    /\ fn_calls' = fn_calls \cup {"buildDemoResult"}
    /\ lastOp' = "buildDemoResult"
    /\ UNCHANGED <<fn_arg, fn_valid>>
    /\ FnFrame

(***************************************************************************)
(* Initial state: every component as its useState calls leave it.          *)
(***************************************************************************)
InitPanels ==
    /\ lastOp = "init"
    /\ seedObj = DEMO_PEGGING_4011835
    /\ materialCode = DEFAULT_MATERIAL
    /\ board = NULL
    /\ loadingBoard = FALSE
    /\ pb_error = ""
    /\ pb_mounted = FALSE
    /\ pb_reqs = <<>>
    /\ cap_data = NULL
    /\ cap_loading = TRUE
    /\ cap_error = ""
    /\ cap_pc = "init"
    /\ materialInput = DEFAULT_MATERIAL
    /\ loading = FALSE
    /\ error = ""
    /\ result = NULL
    /\ peg_reqs = <<>>
    /\ lite_materialInput = DEFAULT_MATERIAL
    /\ lite_loading = FALSE
    /\ lite_error = ""
    /\ lite_result = NULL
    /\ lite_reqs = <<>>
    /\ fn_calls = {}
    /\ fn_valid = FALSE
    /\ fn_demo = NULL
    /\ app_data = NULL
    /\ app_loading = TRUE
    /\ app_error = ""
    /\ activeTab = "overview"
    /\ app_pc = "init"
    /\ ins_insights = <<>>
    /\ ins_loading = TRUE
    /\ ins_error = NULL
    /\ ins_pc = "init"
    /\ old_effect = TRUE
    /\ old_material = old_materialCode
    /\ old_effectiveMaterial = old_materialCode
    /\ old_data = NULL
    /\ old_loading = FALSE
    /\ old_error = ""
    /\ old_reqs = <<>>
    /\ rf_done = FALSE
    /\ rf_out = NULL
    /\ flt_effect = TRUE
    /\ flt_insights = <<>>
    /\ flt_loading = TRUE
    /\ flt_error = NULL
    /\ flt_reqs = <<>>

\* no render computation is exercised
InitNoRender ==
    /\ rf_fn = "none"
    /\ rf_arg = NULL
    /\ rf_given = NULL
    /\ flt_filterTipo = ""
    /\ orphan = OrphanOff

Init ==
    old_materialCode = <<>> /\ InitNoRender /\ InitPanels /\ fn_arg = NullArg /\ variant = "demo"

InitPegging ==
    /\ old_materialCode = <<>>
    /\ InitNoRender
    /\ InitPanels
    /\ fn_arg = NullArg
    /\ variant \in {"demo", "lite"}

InitFn ==
    old_materialCode = <<>> /\ InitNoRender /\ InitPanels /\ fn_arg \in FnInputs /\ variant = "demo"

\* the panels without a fallback: planning board and capacity
Next ==
    \/ PbMount
    \/ \E s \in PanelInputs : PbChange(s)
    \/ handleSubmit
    \/ \E i \in DOMAIN pb_reqs, r \in FetchOutcomes : PbFetchSettles(i, r)
    \/ \E i \in DOMAIN pb_reqs :
         \E json \in BoardJson(pb_reqs[i].code) : PbJsonSettles(i, json)
    \/ \E i \in DOMAIN pb_reqs : PbJsonRejects(i)
    \/ CapMount
    \/ \E r \in FetchOutcomes : CapFetchSettles(r)
    \/ \E json \in CapJson : CapJsonSettles(json)
    \/ CapJsonRejects

Spec == Init /\ [][Next]_vars

\* the pegging panel, in the variant that is built
NextPegging ==
    \/ handleLoadPegging
    \/ \E s \in PanelInputs : PegChange(s)
    \/ \E i \in DOMAIN peg_reqs, r \in FetchOutcomes : PegFetchSettles(i, r)
    \/ \E i \in DOMAIN peg_reqs :
         \E json \in PegJson(peg_reqs[i].code) : PegJsonSettles(i, json)
    \/ \E i \in DOMAIN peg_reqs : PegJsonRejects(i)
    \/ LiteHandleLoadPegging
    \/ \E s \in PanelInputs : LiteChange(s)
    \/ \E i \in DOMAIN lite_reqs, r \in FetchOutcomes : LiteFetchSettles(i, r)
    \/ \E i \in DOMAIN lite_reqs :
         \E json \in PegJson(lite_reqs[i].code) : LiteJsonSettles(i, json)
    \/ \E i \in DOMAIN lite_reqs : LiteJsonRejects(i)

SpecPegging == InitPegging /\ [][NextPegging]_vars

\* the validator and the demo provider on every argument of FnInputs
FnNext ==
    \/ CallIsValidMaterial
    \/ CallBuildDemoResult

SpecFn == InitFn /\ [][FnNext]_vars

\* what the user types into a panel's field on the whole page: the default,
\* an identifier with blanks around it, nothing
AppInputs == {DEFAULT_MATERIAL, <<" ", "B", "7", " ">>, <<>>}

\* the whole page: App, and each panel while its tab shows it
NextApp ==
    \/ AppMount
    \/ \E r \in FetchOutcomes : AppFetchSettles(r)
    \/ \E json \in SummaryJson : AppJsonSettles(json)
    \/ AppJsonRejects
    \/ \E tab \in Tabs : setActiveTab(tab)
    \/ AppShows("overview") /\ InsMount
    \/ \E r \in FetchOutcomes : InsFetchSettles(r)
    \/ \E data \in InsJson : InsJsonSettles(data)
    \/ InsJsonRejects
    \/ AppShows("resources") /\ CapMount
    \/ \E r \in FetchOutcomes : CapFetchSettles(r)
    \/ \E json \in CapJson : CapJsonSettles(json)
    \/ CapJsonRejects
    \/ AppShows("planning") /\ PbMount
    \/ AppShows("planning") /\ \E s \in AppInputs : PbChange(s)
    \/ AppShows("planning") /\ handleSubmit
    \/ \E i \in DOMAIN pb_reqs, r \in FetchOutcomes : PbFetchSettles(i, r)
    \/ \E i \in DOMAIN pb_reqs :
         \E json \in BoardJson(pb_reqs[i].code) : PbJsonSettles(i, json)
    \/ \E i \in DOMAIN pb_reqs : PbJsonRejects(i)
    \/ AppShows("pegging") /\ handleLoadPegging
    \/ AppShows("pegging") /\ \E s \in AppInputs : PegChange(s)
    \/ \E i \in DOMAIN peg_reqs, r \in FetchOutcomes : PegFetchSettles(i, r)
    \/ \E i \in DOMAIN peg_reqs :
         \E json \in PegJson(peg_reqs[i].code) : PegJsonSettles(i, json)
    \/ \E i \in DOMAIN peg_reqs : PegJsonRejects(i)
    \/ AppShows("pegging") /\ LiteHandleLoadPegging
    \/ AppShows("pegging") /\ \E s \in AppInputs : LiteChange(s)
    \/ \E i \in DOMAIN lite_reqs, r \in FetchOutcomes : LiteFetchSettles(i, r)
    \/ \E i \in DOMAIN lite_reqs :
         \E json \in PegJson(lite_reqs[i].code) : LiteJsonSettles(i, json)
    \/ \E i \in DOMAIN lite_reqs : LiteJsonRejects(i)

SpecApp == InitPegging /\ [][NextApp]_vars

\* the page with its three panels that load on their own tab, the requests
\* of unmounted panels followed until they resolve
InitTabs ==
    /\ old_materialCode = <<>>
    /\ rf_fn = "none"
    /\ rf_arg = NULL
    /\ rf_given = NULL
    /\ flt_filterTipo = ""
    /\ orphan = [track |-> TRUE, reqs |-> {}]
    /\ InitPanels
    /\ fn_arg = NullArg
    /\ variant = "demo"

NextTabs ==
    \/ AppMount
    \/ \E r \in FetchOutcomes : AppFetchSettles(r)
    \/ \E json \in SummaryJson : AppJsonSettles(json)
    \/ AppJsonRejects
    \/ \E tab \in Tabs : setActiveTab(tab)
    \/ AppShows("resources") /\ CapMount
    \/ \E r \in FetchOutcomes : CapFetchSettles(r)
    \/ \E json \in CapJson : CapJsonSettles(json)
    \/ CapJsonRejects
    \/ AppShows("planning") /\ PbMount
    \/ AppShows("planning") /\ \E s \in AppInputs : PbChange(s)
    \/ AppShows("planning") /\ handleSubmit
    \/ \E i \in DOMAIN pb_reqs, r \in FetchOutcomes : PbFetchSettles(i, r)
    \/ \E i \in DOMAIN pb_reqs :
         \E json \in BoardJson(pb_reqs[i].code) : PbJsonSettles(i, json)
    \/ \E i \in DOMAIN pb_reqs : PbJsonRejects(i)
    \/ AppShows("pegging") /\ handleLoadPegging
    \/ AppShows("pegging") /\ \E s \in AppInputs : PegChange(s)
    \/ \E i \in DOMAIN peg_reqs, r \in FetchOutcomes : PegFetchSettles(i, r)
    \/ \E i \in DOMAIN peg_reqs :
         \E json \in PegJson(peg_reqs[i].code) : PegJsonSettles(i, json)
    \/ \E i \in DOMAIN peg_reqs : PegJsonRejects(i)
    \/ \E r \in orphan.reqs : OrphanSettles(r)

SpecTabs == InitTabs /\ [][NextTabs]_vars

\* a pending await of each component settles, one way or another
AppSettles ==
    \/ \E r \in FetchOutcomes : AppFetchSettles(r)
    \/ \E json \in SummaryJson : AppJsonSettles(json)
    \/ AppJsonRejects

InsSettles ==
    \/ \E r \in FetchOutcomes : InsFetchSettles(r)
    \/ \E data \in InsJson : InsJsonSettles(data)
    \/ InsJsonRejects

CapSettles ==
    \/ \E r \in FetchOutcomes : CapFetchSettles(r)
    \/ \E json \in CapJson : CapJsonSettles(json)
    \/ CapJsonRejects

PbSettles ==
    \E i \in DOMAIN pb_reqs :
        \/ \E r \in FetchOutcomes : PbFetchSettles(i, r)
        \/ \E json \in BoardJson(pb_reqs[i].code) : PbJsonSettles(i, json)
        \/ PbJsonRejects(i)

PegSettles ==
    \E i \in DOMAIN peg_reqs :
        \/ \E r \in FetchOutcomes : PegFetchSettles(i, r)
        \/ \E json \in PegJson(peg_reqs[i].code) : PegJsonSettles(i, json)
        \/ PegJsonRejects(i)

LiteSettles ==
    \E i \in DOMAIN lite_reqs :
        \/ \E r \in FetchOutcomes : LiteFetchSettles(i, r)
        \/ \E json \in PegJson(lite_reqs[i].code) : LiteJsonSettles(i, json)
        \/ LiteJsonRejects(i)

\* the page when every issued request resolves and every mount effect of a
\* rendered component runs
FairApp ==
    /\ WF_vars(AppMount)
    /\ WF_vars(AppSettles)
    /\ WF_vars(AppShows("overview") /\ InsMount)
    /\ WF_vars(InsSettles)
    /\ WF_vars(AppShows("resources") /\ CapMount)
    /\ WF_vars(CapSettles)
    /\ WF_vars(AppShows("planning") /\ PbMount)
    /\ WF_vars(PbSettles)
    /\ WF_vars(PegSettles)
    /\ WF_vars(LiteSettles)

SpecAppFair == InitPegging /\ [][NextApp]_vars /\ FairApp

\* the panel of "PeggingIaLite - OLD.js" under a parent that passes any
\* materialCode of OldProps, from the first render on
InitOld ==
    /\ old_materialCode \in OldProps
    /\ InitNoRender
    /\ InitPanels
    /\ fn_arg = NullArg
    /\ variant = "demo"

NextOld ==
    \/ OldEffect
    \/ \E p \in OldProps : OldPropChange(p)
    \/ \E s \in OldInputs : OldChange(s)
    \/ handleLoadClick
    \/ \E i \in DOMAIN old_reqs, r \in FetchOutcomes : OldFetchSettles(i, r)
    \/ \E i \in DOMAIN old_reqs :
         \E json \in OldJson(old_reqs[i].code) : OldJsonSettles(i, json)
    \/ \E i \in DOMAIN old_reqs : OldJsonRejects(i)

SpecOld == InitOld /\ [][NextOld]_vars

\* each computation of a render on every payload of its input set
InitRender ==
    /\ old_materialCode = <<>>
    /\ \/ rf_fn = "sortedResources" /\ rf_arg \in InsightsValues
       \/ rf_fn = "cardClass" /\ rf_arg \in CardResources
       \/ rf_fn = "counters" /\ rf_arg \in CounterData
       \/ rf_fn = "chartData" /\ rf_arg \in ChartBoards
    /\ rf_given = rf_arg
    /\ flt_filterTipo = ""
    /\ orphan = OrphanOff
    /\ InitPanels
    /\ fn_arg = NullArg
    /\ variant = "demo"

NextRender ==
    \/ CallSortedResources
    \/ CallCardClass
    \/ CallCounters
    \/ CallChartData

SpecRender == InitRender /\ [][NextRender]_vars

\* IaInsightsPanel under a parent that passes any filterTipo of FilterTipos,
\* from the first render on
InitInsights ==
    /\ old_materialCode = <<>>
    /\ rf_fn = "none"
    /\ rf_arg = NULL
    /\ rf_given = NULL
    /\ flt_filterTipo \in FilterTipos
    /\ orphan = OrphanOff
    /\ InitPanels
    /\ fn_arg = NullArg
    /\ variant = "demo"

NextInsights ==
    \/ FltEffect
    \/ \E t \in FilterTipos : FltPropChange(t)
    \/ \E i \in DOMAIN flt_reqs, r \in FetchOutcomes : FltFetchSettles(i, r)
    \/ \E i \in DOMAIN flt_reqs, data \in FltJson : FltJsonSettles(i, data)
    \/ \E i \in DOMAIN flt_reqs : FltJsonRejects(i)

SpecInsights == InitInsights /\ [][NextInsights]_vars

(***************************************************************************)
(* Properties.                                                             *)
(***************************************************************************)
PbAllResolved == \A i \in DOMAIN pb_reqs : pb_reqs[i].pc = "done"

\* C1: planning board, stale-result dropping: once two or more requests
\* have all resolved, in any order and with any outcomes, board and error
\* are those of the request issued last: its body with no error when it
\* succeeded, no board and an error when it failed.
C1_LastRequestWins ==
    (Len(pb_reqs) >= 2 /\ PbAllResolved) =>
        LET last == pb_reqs[Len(pb_reqs)]
        IN  IF last.ok
            THEN board = last.json /\ pb_error = ""
            ELSE board = NULL /\ pb_error # ""

\* the request a pegging panel issued last
PegLast == peg_reqs[Len(peg_reqs)]

\* C2: pegging panel with demo data: when a request for a validated
\* identifier fails (status not ok, fetch rejected, body not parseable), the
\* panel ends with the demo record for that identifier (the identifier in
\* the record and in each of the seed's five orders), no error and loading
\* false; and no settled request leaves a non-empty error.
C2_FailureGivesDemo ==
    /\ lastOp \in {"peg_not_ok", "peg_catch"} =>
         /\ result # NULL
         /\ result.material = PegLast.code
         /\ Len(result.ordens) = Len(DEMO_PEGGING_4011835.ordens)
         /\ \A k \in DOMAIN result.ordens :
              result.ordens[k].material = PegLast.code
         /\ result.descricao = DEMO_PEGGING_4011835.descricao
         /\ error = ""
         /\ ~loading
    /\ lastOp \in {"peg_not_ok", "peg_catch", "peg_setResult"} => error = ""

\* a fallback for an identifier other than the default one, after a body
\* that could not be parsed
C2_Witness ==
    /\ lastOp = "peg_catch"
    /\ PegLast.how = "demo"
    /\ PegLast.code # DEFAULT_MATERIAL
    /\ result # NULL
    /\ result.material = PegLast.code

\* C3: planning board and capacity have no fallback: a request that fails
\* (status not ok, fetch rejected, body not parseable) leaves a non-empty
\* error, no payload and loading false.
C3_FailureGivesError ==
    /\ lastOp = "pb_catch" =>
         pb_error # "" /\ board = NULL /\ ~loadingBoard
    /\ lastOp = "cap_catch" =>
         cap_error # "" /\ cap_data = NULL /\ ~cap_loading

\* a planning-board failure after an earlier request had loaded a board,
\* with the capacity panel failed as well
C3_Witness ==
    /\ lastOp = "pb_catch"
    /\ \E i \in DOMAIN pb_reqs : pb_reqs[i].pc = "done" /\ pb_reqs[i].ok
                                  /\ pb_reqs[i].json # NULL
    /\ cap_pc = "done"
    /\ cap_error # ""

\* s, with the white space at its two ends set aside, is one or more
\* characters of [0-9A-Za-z-] (stated on positions, without trim)
C4_TrimmedInClass(s) ==
    \E i, j \in 1..Len(s) :
        /\ i <= j
        /\ \A k \in 1..Len(s) :
             IF k < i \/ k > j THEN s[k] \in WhiteSpace
                               ELSE s[k] \in MaterialClass

\* C4: validator: isValidMaterial(s) is true iff s trimmed is non-empty and
\* made only of 0-9, A-Z, a-z and '-'; null and undefined count as empty.
C4_ValidatorIff ==
    "isValidMaterial" \in fn_calls =>
        fn_valid = (fn_arg.type = "string" /\ C4_TrimmedInClass(fn_arg.chars))

\* the default identifier with white space around it is accepted
C4_Witness ==
    /\ "isValidMaterial" \in fn_calls
    /\ fn_arg = Str(<<" ">> \o DEFAULT_MATERIAL \o <<" ", " ">>)
    /\ fn_valid

\* C5: pegging panel (both variants), validation failure: a submit the
\* validator rejects leaves a non-empty error and no result, does not set
\* loading, and issues no request.
C5_InvalidInputNoRequest ==
    [][ /\ lastOp' = "peg_invalid" =>
             /\ error' # ""
             /\ result' = NULL
             /\ ~loading'
             /\ peg_reqs' = peg_reqs
        /\ lastOp' = "lite_invalid" =>
             /\ lite_error' # ""
             /\ lite_result' = NULL
             /\ ~lite_loading'
             /\ lite_reqs' = lite_reqs ]_vars

\* a rejected submit after a request had loaded a result
C5_Witness ==
    /\ lastOp = "peg_invalid"
    /\ Len(peg_reqs) = 1
    /\ peg_reqs[1].how = "backend"
    /\ error = PEG_INVALID
    /\ result = NULL

\* C6: planning board runs the validator before any fetch: a submit whose
\* identifier is empty after trimming or has a character outside
\* [0-9A-Za-z-] issues no request and leaves a non-empty error.
C6_PlanningBoardValidates ==
    [][ (lastOp' = "pb_submit" /\ ~isValidMaterial(Str(materialCode))) =>
            (pb_reqs' = pb_reqs /\ pb_error' # "") ]_vars

\* the fields of a record other than the given ones agree
C7_SameExcept(r, q, fields) ==
    /\ DOMAIN r = DOMAIN q
    /\ \A f \in DOMAIN r \ fields : r[f] = q[f]

\* the record is the seed with material x in it and in each order
C7_SeedWith(r, x) ==
    /\ r # NULL
    /\ r.material = x
    /\ C7_SameExcept(r, DEMO_PEGGING_4011835, {"material", "ordens"})
    /\ Len(r.ordens) = Len(DEMO_PEGGING_4011835.ordens)
    /\ \A k \in DOMAIN r.ordens :
         /\ r.ordens[k].material = x
         /\ C7_SameExcept(r.ordens[k], DEMO_PEGGING_4011835.ordens[k],
                          {"material"})

C8_Inputs == PanelInputs \cup {<<"A">>, <<" ", " ", "\t">>, <<"\t", "-">>}

\* C8: demo provider: buildDemoResult returns null exactly when the
\* identifier is empty after trimming (only white space); no operation of
\* the panel changes what it returns for an identifier; and the seed object
\* is never modified.
C8_DemoDeterministic ==
    /\ [](/\ seedObj = DEMO_PEGGING_4011835
          /\ \A x \in C8_Inputs :
               (buildDemoResult(Str(x)) = NULL)
                   <=> (\A k \in DOMAIN x : x[k] \in WhiteSpace))
    /\ [][\A x \in C8_Inputs :
              buildDemoResult(Str(x))' = buildDemoResult(Str(x))]_vars

\* two fallbacks for the same identifier, the input edited in between
C8_Witness ==
    /\ Len(peg_reqs) = 2
    /\ peg_reqs[1].how = "demo"
    /\ peg_reqs[2].how = "demo"
    /\ peg_reqs[1].code = peg_reqs[2].code
    /\ peg_reqs[1].code # DEFAULT_MATERIAL
    /\ materialInput # peg_reqs[2].code
    /\ result = buildDemoResult(Str(peg_reqs[2].code))

\* C9: planning board, trigger: right after a mount or submit that issues a
\* request, loadingBoard is true, error is empty and board is null.
C9_TriggerDiscardsBoard ==
    [][ (lastOp' \in {"pb_mount", "pb_submit"} /\ Len(pb_reqs') > Len(pb_reqs)) =>
            (loadingBoard' /\ pb_error' = "" /\ board' = NULL) ]_vars

\* how many of the given conditions hold
C10_Count(conds) == Cardinality({k \in DOMAIN conds : conds[k]})

\* C10: pegging panel (both variants): in every reachable state at most one
\* of loading, a non-empty error and a non-null result holds.
C10_OneViewState ==
    /\ C10_Count(<<loading, error # "", result # NULL>>) <= 1
    /\ C10_Count(<<lite_loading, lite_error # "", lite_result # NULL>>) <= 1

\* a second request started after a result had been loaded
C10_Witness ==
    /\ lastOp = "peg_request"
    /\ Len(peg_reqs) = 2
    /\ peg_reqs[1].how = "backend"
    /\ loading
    /\ result = NULL

\* C11: planning board: in every reachable state a non-empty error implies
\* that board is null (the error banner and the board are never held
\* together).
C11_ErrorImpliesNoBoard == pb_error # "" => board = NULL

\* C12: planning board, end to end: the mount issues exactly one request,
\* to /planning/board/4011835-AA; when that request is answered with a
\* status that is not ok (500), the panel holds the error message and shows
\* the error box alone: no loading box, no board, and no further request.
C12_MountThen500 ==
    [][ /\ lastOp' = "pb_mount" =>
             /\ Len(pb_reqs') = 1
             /\ pb_reqs'[1].url =
                  <<"http://127.0.0.1:8000", "/planning/board/", DEFAULT_MATERIAL>>
             /\ pb_reqs'[1].pc = "fetch"
        /\ (Len(pb_reqs) = 1 /\ PbFetchSettles(1, "status")) =>
             /\ pb_error' = PB_ERROR
             /\ PbShowsError'
             /\ ~PbShowsLoading'
             /\ ~PbShowsBoard'
             /\ board' = NULL
             /\ Len(pb_reqs') = 1 ]_vars

\* the mount request has failed and nothing else was issued
C12_Witness ==
    /\ lastOp = "pb_catch"
    /\ Len(pb_reqs) = 1
    /\ pb_reqs[1].code = DEFAULT_MATERIAL
    /\ pb_reqs[1].pc = "done"
    /\ ~pb_reqs[1].ok
    /\ PbShowsError
    /\ ~PbShowsLoading


\* the operations that are triggers: a mount effect, a submit
C13_Triggers ==
    {"app_mount", "ins_mount", "cap_mount", "pb_mount", "pb_submit",
     "peg_request", "lite_request"}

\* the number of requests each list-keeping panel has issued
C13_Issued == Len(pb_reqs) + Len(peg_reqs) + Len(lite_reqs)

\* C13: no automatic retry: on the whole page a request is issued only by a
\* step that is a trigger (a mount effect or a submit), and such a step
\* issues exactly one; a step in which a request fails issues none.  A
\* submit the planning board ignores (empty identifier) issues none.
C13_NoAutomaticRetry ==
    [][ /\ C13_Issued' > C13_Issued =>
             C13_Issued' = C13_Issued + 1 /\ lastOp' \in C13_Triggers
        /\ \A pc \in {<<app_pc, app_pc'>>, <<ins_pc, ins_pc'>>,
                      <<cap_pc, cap_pc'>>} :
             (pc[2] = "fetch" /\ pc[1] # "fetch") =>
                 pc[1] = "init" /\ lastOp' \in C13_Triggers
        /\ lastOp' \in {"pb_mount", "peg_request", "lite_request"} =>
             C13_Issued' = C13_Issued + 1
        /\ lastOp' = "pb_submit" =>
             C13_Issued' = C13_Issued +
                 (IF Trim(materialCode) = <<>> THEN 0 ELSE 1)
        /\ lastOp' \in {"app_catch", "ins_catch", "cap_catch", "pb_catch",
                        "peg_catch", "peg_not_ok", "lite_catch"} =>
             /\ C13_Issued' = C13_Issued
             /\ <<app_pc', ins_pc', cap_pc'>> \in
                  {<<a, b, c>> : a \in {app_pc, "done"}, b \in {ins_pc, "done"},
                                 c \in {cap_pc, "done"}} ]_vars

\* a pegging request has failed and the only request issued is that one
C13_Witness ==
    /\ lastOp \in {"peg_catch", "peg_not_ok"}
    /\ Len(peg_reqs) = 1
    /\ peg_reqs[1].pc = "done"
    /\ ~loading
    /\ app_pc = "done"


\* C14: failure locality: when the /dashboard/summary fetch has failed, the
\* capacity, planning-board and pegging panels are still rendered when
\* their tab is the active one.
C14_FailureIsLocal ==
    (app_pc = "done" /\ app_error # "") =>
        \A tab \in {"resources", "planning", "pegging"} :
            activeTab = tab => AppShows(tab)


\* the payloads C15 names: a null body, total_recursos = 0, or no insights
C15_EmptyPayload(data) ==
    \/ data = NULL
    \/ CapTotalRecursos(data) = 0
    \/ Len(CapSafeInsights(data)) = 0

\* C15: capacity: after a successful fetch error is empty and no error box
\* is shown; a payload that is null, has total_recursos = 0 or has no
\* insights is presented by an informational message and not by the chart
\* and cards a payload with resources gets.
C15_CapacityEmptyState ==
    (cap_pc = "done" /\ cap_error = "") =>
        /\ ~CapShowsError
        /\ ~CapShowsLoading
        /\ C15_EmptyPayload(cap_data) =>
             /\ CapShowsNoData \/ CapShowsEmptyMsgs
             /\ ~CapShowsResources
        /\ ~C15_EmptyPayload(cap_data) =>
             /\ CapShowsResources
             /\ ~(CapShowsNoData \/ CapShowsEmptyMsgs)


\* C16: pegging, Empty or Success: the "no linked orders" message is shown
\* iff the panel is not loading, has no error, has a result, and the result
\* has zero orders or sem_ordens set; the message and the order cards are
\* never shown together; and right after a payload was loaded one of the
\* two is shown.
C16_EmptyXorSuccess ==
    /\ nenhumaOrdem <=>
         (~loading /\ error = "" /\ result # NULL
          /\ (Len(Ordens(result)) = 0 \/ SemOrdens(result)))
    /\ LiteNenhumaOrdem <=>
         (~lite_loading /\ lite_error = "" /\ lite_result # NULL
          /\ (Len(Ordens(lite_result)) = 0 \/ SemOrdens(lite_result)))
    /\ ~(nenhumaOrdem /\ PegShowsCards)
    /\ ~(LiteNenhumaOrdem /\ LiteShowsCards)
    /\ lastOp = "peg_setResult" => (nenhumaOrdem \/ PegShowsCards)
    /\ lastOp = "lite_setResult" => (LiteNenhumaOrdem \/ LiteShowsCards)


\* C17: planning board: while the request issued last has not resolved the
\* panel is loading (loadingBoard is true and no board is displayed),
\* whatever older requests have done meanwhile.
C17_LoadingWhileInFlight ==
    (pb_reqs # <<>> /\ pb_reqs[Len(pb_reqs)].pc # "done") =>
        loadingBoard /\ ~PbShowsBoard


\* C19: the pegging panel starts idle and only a submit issues a request:
\* initially and whenever its tab comes to show it, loading is false, error
\* empty, result null and no request has been issued; a step that edits the identifier field leaves
\* loading, error, result and the requests as they were; and a request is
\* only ever issued by the step of handleLoadPegging that accepts the input.
C19_IdleUntilSubmit ==
    [][ /\ lastOp = "init" =>
             /\ ~loading /\ error = "" /\ result = NULL /\ peg_reqs = <<>>
             /\ ~lite_loading /\ lite_error = "" /\ lite_result = NULL
             /\ lite_reqs = <<>>
        /\ (~AppShows("pegging") /\ AppShows("pegging")') =>
             /\ ~loading' /\ error' = "" /\ result' = NULL /\ peg_reqs' = <<>>
             /\ ~lite_loading' /\ lite_error' = "" /\ lite_result' = NULL
             /\ lite_reqs' = <<>>
        /\ lastOp' \in {"peg_change", "lite_change"} =>
             /\ UNCHANGED <<loading, error, result, peg_reqs>>
             /\ UNCHANGED <<lite_loading, lite_error, lite_result, lite_reqs>>
        /\ peg_reqs' # peg_reqs /\ Len(peg_reqs') > Len(peg_reqs) =>
             lastOp' = "peg_request"
        /\ lite_reqs' # lite_reqs /\ Len(lite_reqs') > Len(lite_reqs) =>
             lastOp' = "lite_request" ]_vars

\* the field was edited in a panel that holds a result and issued one request
C19_Witness ==
    /\ AppShows("pegging")
    /\ lastOp = "peg_change"
    /\ materialInput # DEFAULT_MATERIAL
    /\ Len(peg_reqs) = 1
    /\ result # NULL


\* C20: the pegging panel that takes materialCode as a prop, last trigger
\* wins: once two or more requests have all resolved, in any order, the data
\* the panel displays is the response to the request issued last.
C20_LastTriggerWins ==
    (Len(old_reqs) >= 2 /\ \A i \in DOMAIN old_reqs : old_reqs[i].pc = "done") =>
        LET last == old_reqs[Len(old_reqs)]
        IN  OldShowsData => last.ok /\ old_data = last.json


C21_PbOps ==
    {"pb_mount", "pb_change", "pb_submit", "pb_resp_ok", "pb_catch",
     "pb_setBoard"}

C21_CapOps == {"cap_mount", "cap_resp_ok", "cap_catch", "cap_setData"}

C21_PegOps ==
    {"peg_invalid", "peg_request", "peg_change", "peg_resp_ok", "peg_not_ok",
     "peg_catch", "peg_setResult", "lite_invalid", "lite_request",
     "lite_change", "lite_resp_ok", "lite_catch", "lite_setResult"}

C22_LiteNoFallback ==
    [][ /\ \A i \in DOMAIN lite_reqs :
             /\ (\/ LiteFetchSettles(i, "status")
                 \/ LiteFetchSettles(i, "reject")
                 \/ LiteJsonRejects(i)) =>
                    /\ isValidMaterial(Str(lite_reqs[i].code))
                    /\ lite_error' # ""
                    /\ lite_result' = NULL
                    /\ ~lite_loading'
             /\ \A json \in PegJson(lite_reqs[i].code) :
                    LiteJsonSettles(i, json) =>
                        /\ lite_result' = json
                        /\ lite_error' = ""
                        /\ ~lite_loading'
        /\ \A i \in DOMAIN lite_reqs' : lite_reqs'[i].how # "demo"
        /\ lite_result' # NULL =>
             /\ lite_reqs' # <<>>
             /\ lite_reqs'[Len(lite_reqs')].how = "backend" ]_vars

\* a request of this variant has failed
C22_Witness ==
    /\ variant = "lite"
    /\ lastOp = "lite_catch"
    /\ lite_reqs[Len(lite_reqs)].how = "error"
    /\ lite_error = PEG_ERROR
    /\ lite_result = NULL
    /\ ~lite_loading


\* how many times x occurs in a list
C23_Count(list, x) == Cardinality({i \in DOMAIN list : list[i] = x})

\* C23: capacity resource ordering: the list computed for the chart and the
\* cards is a permutation of the payload's insights list, in non-increasing
\* order of utilizacao_pct with a missing one counted as 0; the payload's
\* own list is left as it was; and an insights field that is not an array
\* gives the empty list.
C23_SortedResources ==
    (rf_fn = "sortedResources" /\ rf_done) =>
        /\ Len(rf_out) = Len(safeInsights(rf_given))
        /\ \A x \in SortResources :
               C23_Count(rf_out, x) = C23_Count(safeInsights(rf_given), x)
        /\ \A i \in 1..(Len(rf_out) - 1) :
               utilizacao(rf_out[i]) >= utilizacao(rf_out[i + 1])
        /\ rf_arg = rf_given
        /\ rf_given.type # "array" => rf_out = <<>>

\* a list of three resources that was not in order has been sorted
C23_Witness ==
    /\ rf_fn = "sortedResources"
    /\ rf_done
    /\ Len(rf_out) = 3
    /\ rf_out # rf_given.items
    /\ "utilizacao_pct" \notin DOMAIN rf_out[3]


\* C24: capacity card categorization: a resource's card has exactly one of
\* three classes: critical when categoria is "gargalo" in any letter case or
\* utilization is above 100, else low when utilization is below 90, else
\* normal (90 and 100 are normal); the badge is shown iff the class is
\* critical.
C24_CardClass ==
    (rf_fn = "cardClass" /\ rf_done) =>
        LET r == rf_given
            u == IF "utilizacao_pct" \in DOMAIN r THEN r.utilizacao_pct ELSE 0
            gargalo ==
                /\ "categoria" \in DOMAIN r
                /\ r.categoria \in
                     { GARGALO, <<"G", "a", "r", "g", "a", "l", "o">>,
                       <<"G", "A", "R", "G", "A", "L", "O">> }
        IN  /\ rf_out.class \in
                 {"capacity-critical", "capacity-low", "capacity-normal"}
            /\ rf_out.class = "capacity-critical" <=> (gargalo \/ u > 100)
            /\ rf_out.class = "capacity-low" <=> (~gargalo /\ u <= 100 /\ u < 90)
            /\ rf_out.class = "capacity-normal" <=>
                 (~gargalo /\ u >= 90 /\ u <= 100)
            /\ rf_out.badge <=> rf_out.class = "capacity-critical"

\* a resource at exactly 100 with no categoria got the normal class
C24_Witness ==
    /\ rf_fn = "cardClass"
    /\ rf_done
    /\ rf_given = [recurso |-> "WC-10", utilizacao_pct |-> 100]
    /\ rf_out.class = "capacity-normal"
    /\ ~rf_out.badge


\* the elements of a list whose tipo is t, in the order of the list
RECURSIVE C25_Keep(_, _)
C25_Keep(items, t) ==
    IF items = <<>>
    THEN <<>>
    ELSE IF Head(items).tipo = t
         THEN <<Head(items)>> \o C25_Keep(Tail(items), t)
         ELSE C25_Keep(Tail(items), t)

\* what the panel is to display for a body under a filterTipo
C25_Expected(data, t) ==
    LET items == IF "insights" \in DOMAIN data THEN data.insights ELSE <<>>
    IN  IF t = "" THEN items ELSE C25_Keep(items, t)

C26_AtLeast(list, min) ==
    Cardinality({i \in DOMAIN list :
                    /\ "criticidade_score" \in DOMAIN list[i]
                    /\ list[i].criticidade_score >= min})

\* C26: overview alert counters: the materials counter is the number of
\* elements of criticos with criticidade_score >= 80, the orders counter the
\* number of elements of ordens_criticas with criticidade_score >= 70 (a
\* missing score counts as 0), the overloaded-resources counter is
\* capacidade.recursos_acima_100 or 0 when absent; without a summary (before
\* it is loaded, after it failed) all three are 0.
C26_Counters ==
    (rf_fn = "counters" /\ rf_done) =>
        LET d == rf_given
            has(f) == d # NULL /\ f \in DOMAIN d
        IN  /\ rf_out.highRiskMaterials =
                 IF has("criticos") THEN C26_AtLeast(d.criticos, 80) ELSE 0
            /\ rf_out.highRiskOrders =
                 IF has("ordens_criticas")
                 THEN C26_AtLeast(d.ordens_criticas, 70)
                 ELSE 0
            /\ rf_out.overloadedResources =
                 IF /\ has("capacidade")
                    /\ d.capacidade # NULL
                    /\ "recursos_acima_100" \in DOMAIN d.capacidade
                 THEN d.capacidade.recursos_acima_100
                 ELSE 0
            /\ d = NULL =>
                 rf_out = [highRiskMaterials |-> 0, highRiskOrders |-> 0,
                           overloadedResources |-> 0]

\* a summary with materials at 79, 80 and no score counted one material
C26_Witness ==
    /\ rf_fn = "counters"
    /\ rf_done
    /\ rf_given # NULL
    /\ "capacidade" \in DOMAIN rf_given
    /\ "criticos" \in DOMAIN rf_given
    /\ Len(rf_given.criticos) = 3
    /\ \E i, j, k \in 1..3 :
          /\ rf_given.criticos[i] = [material |-> "M-1", criticidade_score |-> 79]
          /\ rf_given.criticos[j] = [material |-> "M-2", criticidade_score |-> 80]
          /\ rf_given.criticos[k] = [material |-> "M-4"]
    /\ rf_out.highRiskMaterials = 1
    /\ rf_out.overloadedResources = 2

\* App's data is null while the summary is loading and after it failed
C26_NoDataUntilLoaded ==
    (app_loading \/ app_error # "") => app_data = NULL

\* the value a series of a board has for week i, 0 when the series is
\* missing or has no value for that week
C27_Value(series, name, i) ==
    IF name \in DOMAIN series /\ i <= Len(series[name])
    THEN series[name][i]
    ELSE 0

\* C27: planning-board chart data: with series.labels the chart has exactly
\* one point per label in label order, point i carrying demanda[i],
\* estoque_natural[i], estoque_pos_ia[i] and producao_ia[i], each 0 when the
\* series is missing or shorter than labels; without board, series or labels
\* the chart data is empty.
C27_ChartData ==
    (rf_fn = "chartData" /\ rf_done) =>
        LET b == rf_given
            hasLabels ==
                /\ b # NULL
                /\ "series" \in DOMAIN b
                /\ b.series # NULL
                /\ "labels" \in DOMAIN b.series
        IN  /\ ~hasLabels => rf_out = <<>>
            /\ hasLabels =>
                 /\ Len(rf_out) = Len(b.series.labels)
                 /\ \A i \in 1..Len(b.series.labels) :
                      /\ rf_out[i].semana = b.series.labels[i]
                      /\ rf_out[i].demanda = C27_Value(b.series, "demanda", i)
                      /\ rf_out[i].estoque_natural =
                           C27_Value(b.series, "estoque_natural", i)
                      /\ rf_out[i].estoque_pos_ia =
                           C27_Value(b.series, "estoque_pos_ia", i)
                      /\ rf_out[i].producao_ia =
                           C27_Value(b.series, "producao_ia", i)

\* a board with two labels, one value of demanda and no producao_ia got two
\* points, the second with demanda 0
C27_Witness ==
    /\ rf_fn = "chartData"
    /\ rf_done
    /\ rf_given # NULL
    /\ "series" \in DOMAIN rf_given
    /\ rf_given.series # NULL
    /\ DOMAIN rf_given.series =
         {"horizonte_semanas", "labels", "demanda", "estoque_natural"}
    /\ Len(rf_given.series.labels) = 2
    /\ Len(rf_given.series.demanda) = 1
    /\ Len(rf_given.series.estoque_natural) = 3
    /\ Len(rf_out) = 2
    /\ rf_out[1].demanda = 11
    /\ rf_out[2].demanda = 0
    /\ rf_out[2].estoque_natural = 22
    /\ rf_out[2].producao_ia = 0

\* the requests of a list that have not been resolved
C28_Unresolved(reqs) == {i \in DOMAIN reqs : reqs[i].pc # "done"}

\* in a state: at most one request is unresolved, it is the most recently
\* issued one, the panel is loading and the button is disabled
C28_OneInFlight ==
    /\ Cardinality(C28_Unresolved(peg_reqs)) <= 1
    /\ C28_Unresolved(peg_reqs) \subseteq {Len(peg_reqs)}
    /\ C28_Unresolved(peg_reqs) # {} =>
         loading /\ ~ButtonEnabled /\ ~ENABLED handleLoadPegging
    /\ loading => C28_Unresolved(peg_reqs) # {} \/ Len(peg_reqs) = 0
    /\ Cardinality(C28_Unresolved(lite_reqs)) <= 1
    /\ C28_Unresolved(lite_reqs) \subseteq {Len(lite_reqs)}
    /\ C28_Unresolved(lite_reqs) # {} =>
         lite_loading /\ ~LiteButtonEnabled /\ ~ENABLED LiteHandleLoadPegging

\* in a step: a result is applied, and loading ended, only by the
\* resolution of the most recently issued request
C28_AppliedByLatest ==
    /\ (result' # result /\ result' # NULL) \/ (loading /\ ~loading') =>
         /\ peg_reqs # <<>>
         /\ Len(peg_reqs') = Len(peg_reqs)
         /\ peg_reqs[Len(peg_reqs)].pc # "done"
         /\ peg_reqs'[Len(peg_reqs)].pc = "done"
    /\ (lite_result' # lite_result /\ lite_result' # NULL)
         \/ (lite_loading /\ ~lite_loading') =>
         /\ lite_reqs # <<>>
         /\ Len(lite_reqs') = Len(lite_reqs)
         /\ lite_reqs[Len(lite_reqs)].pc # "done"
         /\ lite_reqs'[Len(lite_reqs)].pc = "done"

\* C28: pegging panel, single request in flight: the submit control is
\* disabled whenever loading is true, so at most one pegging request is
\* unresolved in every reachable state and a result is applied only by the
\* most recently issued request; while a request is unresolved the panel
\* stays in Loading and the user cannot trigger another one.
C28_SingleRequestInFlight ==
    [](C28_OneInFlight) /\ [][C28_AppliedByLatest]_vars

\* a second request is in flight after the first was resolved
C28_Witness ==
    /\ Len(peg_reqs) = 2
    /\ peg_reqs[1].pc = "done"
    /\ peg_reqs[2].pc = "fetch"
    /\ loading
    /\ ~ButtonEnabled

\* in a state: right after demo data was substituted for a request, the
\* record shown carries that request's identifier, in the record and in
\* every order
C29_DemoOfRequest ==
    (lastOp \in {"peg_catch", "peg_not_ok"} /\ PegLast.how = "demo") =>
        /\ result # NULL
        /\ result.material = PegLast.code
        /\ result.ordens # <<>>
        /\ \A k \in DOMAIN result.ordens :
               result.ordens[k].material = PegLast.code

\* in a step: a request carries the trimmed content the field had when the
\* button was clicked, and an edit of the field changes no request
C29_SubmittedCode ==
    /\ lastOp' = "peg_request" =>
         /\ Len(peg_reqs') = Len(peg_reqs) + 1
         /\ peg_reqs'[Len(peg_reqs')].code = Trim(materialInput)
    /\ \A i \in DOMAIN peg_reqs :
         i \in DOMAIN peg_reqs' /\ peg_reqs'[i].code = peg_reqs[i].code

\* C29: pegging fallback uses the submitted identifier: when a pegging
\* request fails and demo data is substituted, the demo record's material
\* and every order's material equal the trimmed identifier submitted for
\* that request, even if the field was edited while the request was in
\* flight.
C29_FallbackUsesSubmitted ==
    [](C29_DemoOfRequest) /\ [][C29_SubmittedCode]_vars

\* demo data for "B7" was substituted after the field had been changed to
\* another identifier while the request was in flight
C29_Witness ==
    /\ lastOp \in {"peg_catch", "peg_not_ok"}
    /\ PegLast.how = "demo"
    /\ PegLast.code = <<"B", "7">>
    /\ Trim(materialInput) # PegLast.code
    /\ isValidMaterial(Str(Trim(materialInput)))
    /\ result.material = <<"B", "7">>

\* in a step that activates a tab: every panel is in the state its
\* component starts in, with no request issued yet
C30_FreshInstance ==
    lastOp' = "setActiveTab" =>
        /\ activeTab' # activeTab
        /\ materialCode' = DEFAULT_MATERIAL
        /\ board' = NULL /\ ~loadingBoard' /\ pb_error' = ""
        /\ ~pb_mounted' /\ pb_reqs' = <<>>
        /\ cap_data' = NULL /\ cap_loading' /\ cap_error' = ""
        /\ cap_pc' = "init"
        /\ materialInput' = DEFAULT_MATERIAL
        /\ ~loading' /\ error' = "" /\ result' = NULL /\ peg_reqs' = <<>>
        /\ lite_materialInput' = DEFAULT_MATERIAL
        /\ ~lite_loading' /\ lite_error' = "" /\ lite_result' = NULL
        /\ lite_reqs' = <<>>

\* in a step: the mount effect of the planning board and of the capacity
\* panel runs once for an instance, while its tab is shown, and issues one
\* request; the pegging panel issues none without a click
C30_OneRequestOnMount ==
    /\ lastOp' = "pb_mount" =>
         /\ activeTab = "planning"
         /\ ~pb_mounted /\ pb_mounted'
         /\ pb_reqs = <<>>
         /\ Len(pb_reqs') = 1
         /\ pb_reqs'[1].code = DEFAULT_MATERIAL
    /\ (pb_mounted /\ Len(pb_reqs') > Len(pb_reqs)) => lastOp' = "pb_submit"
    /\ lastOp' = "cap_mount" =>
         /\ activeTab = "resources"
         /\ cap_pc = "init" /\ cap_pc' = "fetch"
    /\ (cap_pc' = "fetch" /\ cap_pc # "fetch") => lastOp' = "cap_mount"
    /\ Len(peg_reqs') > Len(peg_reqs) => lastOp' = "peg_request"
    /\ Len(lite_reqs') > Len(lite_reqs) => lastOp' = "lite_request"

\* in a step that resolves a request of an unmounted instance: the state of
\* the page and of every mounted panel stays as it is
C30_LateResponseIgnored ==
    lastOp' = "orphan_settles" =>
        /\ orphan'.reqs # orphan.reqs
        /\ UNCHANGED <<pbVars, capVars, pegVars, liteVars, insVars, appVars>>

====
